---- MODULE Spec2Model ----
(***************************************************************************)
(* A model of the sheet storage engine of anchor_test (src/src/db.rs,      *)
(* src/src/sheet.rs): the SQLite store behind Db, the three operations     *)
(* new_sheet, insert_cell and get_sheet, and the value classification of   *)
(* CellValue::is_lookup.                                                   *)
(***************************************************************************)
EXTENDS Integers, Sequences, FiniteSets, TLC

\* ------------------------------------------------------------------------
\* Bounds of the model
\* ------------------------------------------------------------------------

\* A store holds at most MaxCells cells with a representation (a non-NULL
\* literal or a lookup edge); requests that would exceed it are not issued.
MaxCells == 3

\* The row keys of the requests.
Rows == {0, 1}

\* The sheet identifiers of the requests (opaque tokens), and the tokens
\* SheetId::generate draws: tokens are interchangeable, and in this
\* specification every draw yields the same one.
SheetIds == {"s1", "s2"}
DrawnIds == {"s1"}

\* ------------------------------------------------------------------------
\* Text: a string is a sequence of one-character strings
\* ------------------------------------------------------------------------

Quote == "\""

Whitespace == {" ", "\t"}

Digits == {"0", "1", "2", "3", "4", "5", "6", "7", "8", "9"}

DigitValue(c) ==
    CASE c = "0" -> 0 [] c = "1" -> 1 [] c = "2" -> 2 [] c = "3" -> 3
      [] c = "4" -> 4 [] c = "5" -> 5 [] c = "6" -> 6 [] c = "7" -> 7
      [] c = "8" -> 8 [] c = "9" -> 9

DigitChar(n) ==
    CASE n = 0 -> "0" [] n = 1 -> "1" [] n = 2 -> "2" [] n = 3 -> "3"
      [] n = 4 -> "4" [] n = 5 -> "5" [] n = 6 -> "6" [] n = 7 -> "7"
      [] n = 8 -> "8" [] n = 9 -> "9"

None == [none |-> TRUE]

\* str::parse::<i64> on a string of ASCII digits (base 10, leading zeros
\* allowed).  The texts of this model are far shorter than the 19 digits at
\* which the parse overflows.
RECURSIVE ParseDigits(_, _)
ParseDigits(ds, acc) ==
    IF ds = <<>> THEN acc
    ELSE ParseDigits(Tail(ds), acc * 10 + DigitValue(Head(ds)))

\* The first index >= i of s that is not whitespace (Len(s) + 1 if none).
RECURSIVE SkipWhitespace(_, _)
SkipWhitespace(s, i) ==
    IF i <= Len(s) /\ s[i] \in Whitespace THEN SkipWhitespace(s, i + 1) ELSE i

\* The first index >= i of s that holds a double quote (Len(s) + 1 if none).
RECURSIVE SkipNonQuote(_, _)
SkipNonQuote(s, i) ==
    IF i <= Len(s) /\ s[i] # Quote THEN SkipNonQuote(s, i + 1) ELSE i

\* The first index >= i of s that is not a digit (Len(s) + 1 if none).
RECURSIVE SkipDigits(_, _)
SkipDigits(s, i) ==
    IF i <= Len(s) /\ s[i] \in Digits THEN SkipDigits(s, i + 1) ELSE i

LookupPrefix == <<"l", "o", "o", "k", "u", "p", "(">>

\* LOOKUP_REGEX  ^lookup\(\s*"([^"]+)"\s*,\s*(\d+)\s*\)$  : the two capture
\* groups of the match, or None.  The character classes that meet at each
\* border of the pattern are disjoint, so the greedy scan is the match.
LookupRegexCaptures(s) ==
    IF Len(s) < Len(LookupPrefix) \/ SubSeq(s, 1, Len(LookupPrefix)) # LookupPrefix
    THEN None
    ELSE LET q1 == SkipWhitespace(s, Len(LookupPrefix) + 1) IN
    IF q1 > Len(s) \/ s[q1] # Quote THEN None
    ELSE LET q2 == SkipNonQuote(s, q1 + 1) IN
    IF q2 > Len(s) \/ q2 = q1 + 1 THEN None
    ELSE LET comma == SkipWhitespace(s, q2 + 1) IN
    IF comma > Len(s) \/ s[comma] # "," THEN None
    ELSE LET d1 == SkipWhitespace(s, comma + 1)
             d2 == SkipDigits(s, d1) IN
    IF d2 = d1 THEN None
    ELSE LET close == SkipWhitespace(s, d2) IN
    IF close # Len(s) \/ s[close] # ")" THEN None
    ELSE [col_name |-> SubSeq(s, q1 + 1, q2 - 1), row |-> SubSeq(s, d1, d2 - 1)]

\* ------------------------------------------------------------------------
\* Cell values  (sheet.rs: CellValue, SchemaColumnKind)
\* ------------------------------------------------------------------------

Boolean(b) == [kind |-> "Boolean", b |-> b]
Int64(i) == [kind |-> "Int", i |-> i]
Double(d) == [kind |-> "Double", d |-> d]
String(s) == [kind |-> "String", s |-> s]

\* CellValue::is_lookup: Some(LookupCellValue) or None.
is_lookup(value) ==
    IF value.kind # "String" THEN None
    ELSE LET c == LookupRegexCaptures(value.s) IN
         IF c = None THEN None
         ELSE [target_col |-> c.col_name, target_row |-> ParseDigits(c.row, 0)]

\* A Boolean is taken for an Int.
KindOfValue_BooleanAsInt(value) == IF value.kind = "Boolean" THEN "Int" ELSE value.kind

\* impl From<&CellValue> for SchemaColumnKind
KindOfValue(value) == value.kind

get_sql_text(kind) ==
    CASE kind = "Boolean" -> "BOOLEAN"
      [] kind = "Int" -> "INTEGER"
      [] kind = "Double" -> "REAL"
      [] kind = "String" -> "TEXT"

\* Every type text is read back as Int.
from_sql_text_AllInt(text) == "Int"

from_sql_text(text) ==
    CASE text = "BOOLEAN" -> "Boolean"
      [] text = "INTEGER" -> "Int"
      [] text = "REAL" -> "Double"
      [] text = "TEXT" -> "String"

\* ------------------------------------------------------------------------
\* Schema  (sheet.rs: Schema, SchemaColumn)
\* ------------------------------------------------------------------------

SchemaColumn(name, kind) == [name |-> name, kind |-> kind]

\* The loop of Schema::is_valid over columns[i ..], `names` being the HashSet
\* of the names seen so far.
\* The same loop with a set that remembers only the name before the current
\* one.
RECURSIVE is_valid_from_LastNameOnly(_, _, _)
is_valid_from_LastNameOnly(columns, i, names) ==
    IF i > Len(columns) THEN TRUE
    ELSE IF (\E k \in 1 .. Len(columns[i].name) : columns[i].name[k] = Quote)
            \/ columns[i].name \in names
         THEN FALSE
         ELSE is_valid_from_LastNameOnly(columns, i + 1, {columns[i].name})

RECURSIVE is_valid_from(_, _, _)
is_valid_from(columns, i, names) ==
    IF i > Len(columns) THEN TRUE
    ELSE IF (\E k \in 1 .. Len(columns[i].name) : columns[i].name[k] = Quote)
            \/ columns[i].name \in names
         THEN FALSE
         ELSE is_valid_from(columns, i + 1, names \cup {columns[i].name})

is_valid(schema) == is_valid_from(schema, 1, {})

\* ------------------------------------------------------------------------
\* The SQLite store
\* ------------------------------------------------------------------------

VARIABLES
    sheets,     \* table `sheets`: the set of registered ids (PRIMARY KEY id)
    columns,    \* tables sheet_<id>_columns: id -> sequence of [name, type] by column id
    data,       \* tables sheet_<id>: id -> [row -> [column id -> SQL value]]
    lookups,    \* tables sheet_<id>_lookups: id -> set of [col_id, row, target_col_id, target_row]
    indexes,    \* the names of the indexes of the database
    op          \* the call being answered: its arguments and its outcome, or Idle
                \* (under SpecProvision: the call of every client)

vars == <<sheets, columns, data, lookups, indexes, op>>

\* The committed contents of the database.
Store == [sheets |-> sheets, columns |-> columns, data |-> data,
          lookups |-> lookups, indexes |-> indexes]

\* SQL values by storage class.
SqlNull == [class |-> "NULL"]
SqlInteger(i) == [class |-> "INTEGER", i |-> i]
SqlReal(d) == [class |-> "REAL", d |-> d]
SqlText(s) == [class |-> "TEXT", s |-> s]

\* query.bind(x) for each variant of CellValue (sqlx Encode for Sqlite).
Bind(value) ==
    CASE value.kind = "Boolean" -> SqlInteger(IF value.b THEN 1 ELSE 0)
      [] value.kind = "Int" -> SqlInteger(value.i)
      [] value.kind = "Double" -> SqlReal(value.d)
      [] value.kind = "String" -> SqlText(value.s)

\* row.get::<T, usize>(1) by the declared kind of the column (sqlx Decode).
DecodeAs(kind, sql) ==
    CASE kind = "Boolean" -> Boolean(sql.i # 0)
      [] kind = "Int" -> Int64(sql.i)
      [] kind = "Double" -> Double(sql.d)
      [] kind = "String" -> String(sql.s)

\* The outcomes of the three operations: Ok, or the message of the error.
Ok == "ok"
InvalidSchema == "Invalid schema"
SheetNotFound == "sheet doesn't exist"
UnknownColumn == "invalid column name"
UnknownTargetColumn == "invalid target column name"
TypeMismatch == "invalid column type"
TargetTypeMismatch == "invalid target column type"
CycleDetected == "detected lookup cycle"
StorageFailure == "database error"
\* detect_cycle never returns: the call has no outcome.
NoReturn == "no return"

\* Db::sheet_exists
sheet_exists(db, sheetid) == sheetid \in db.sheets

\* Db::get_column_by_name: Some((id, kind)) or None; column ids count from 0.
get_column_by_name(db, sheetid, name) ==
    LET tbl == db.columns[sheetid]
        hit == {i \in 1 .. Len(tbl) : tbl[i].name = name}
    IN IF hit = {} THEN None
       ELSE LET i == CHOOSE i \in hit : TRUE
            IN [id |-> i - 1, kind |-> from_sql_text(tbl[i].type)]

\* SELECT target_col_id, target_row FROM sheet_<id>_lookups WHERE col_id = ?
\* AND row = ? with fetch_optional: a matching row, or None.
FetchLookup(tbl, col_id, row) ==
    LET hit == {e \in tbl : e.col_id = col_id /\ e.row = row}
    IN IF hit = {} THEN None
       ELSE LET e == CHOOSE e \in hit : TRUE
            IN [col_id |-> e.target_col_id, row |-> e.target_row]

CycleFound == "true"
CycleAbsent == "false"

\* Only the first edge is looked at: the walk does not move on.
detect_cycle_loop_OneStep(tbl, col_id, row, target_col_id, target_row, seen) ==
    LET next == FetchLookup(tbl, target_col_id, target_row) IN
    IF next # None /\ next.col_id = col_id /\ next.row = row THEN CycleFound ELSE CycleAbsent

\* The cursor is not moved to the cell that was read: on an edge that does
\* not lead to the written cell the loop asks for the same cell for ever.
detect_cycle_loop_NoAdvance(tbl, col_id, row, target_col_id, target_row, seen) ==
    LET next == FetchLookup(tbl, target_col_id, target_row) IN
    IF next = None THEN CycleAbsent
    ELSE IF next.col_id = col_id /\ next.row = row THEN CycleFound
    ELSE NoReturn

\* The loop of Db::detect_cycle from the cell (target_col_id, target_row).
\* `seen` holds the cells the loop has queried: the loop has no bound of its
\* own, and coming back to one of them means it runs forever.
RECURSIVE detect_cycle_loop(_, _, _, _, _, _)
detect_cycle_loop(tbl, col_id, row, target_col_id, target_row, seen) ==
    LET next == FetchLookup(tbl, target_col_id, target_row) IN
    IF next = None THEN CycleAbsent
    ELSE IF next.col_id = col_id /\ next.row = row THEN CycleFound
    ELSE IF <<next.col_id, next.row>> \in seen THEN NoReturn
    ELSE detect_cycle_loop(tbl, col_id, row, next.col_id, next.row,
                           seen \cup {<<next.col_id, next.row>>})

\* The number of edges the loop of Db::detect_cycle reads before it returns:
\* the iterations in which the SELECT finds a row. On a cell the loop has
\* queried before the count has no end; it is cut above the size of the table.
RECURSIVE detect_cycle_loop_steps(_, _, _, _, _, _)
detect_cycle_loop_steps(tbl, col_id, row, target_col_id, target_row, seen) ==
    LET next == FetchLookup(tbl, target_col_id, target_row) IN
    IF next = None THEN 0
    ELSE IF next.col_id = col_id /\ next.row = row THEN 1
    ELSE IF <<next.col_id, next.row>> \in seen THEN Cardinality(tbl) + 1
    ELSE 1 + detect_cycle_loop_steps(tbl, col_id, row, next.col_id, next.row,
                                     seen \cup {<<next.col_id, next.row>>})

\* The same count for Db::detect_cycle: none for a self-reference.
detect_cycle_steps(tbl, col_id, row, target_col_id, target_row) ==
    IF col_id = target_col_id /\ row = target_row THEN 0
    ELSE detect_cycle_loop_steps(tbl, col_id, row, target_col_id, target_row,
                                 {<<target_col_id, target_row>>})

\* The check of the self-reference is missing.
detect_cycle_NoSelfCheck(tbl, col_id, row, target_col_id, target_row) ==
    detect_cycle_loop(tbl, col_id, row, target_col_id, target_row,
                      {<<target_col_id, target_row>>})

\* The stored edges are also followed from the source cell, and a cycle is
\* reported when that walk comes to the target cell.
detect_cycle_BothWays(tbl, col_id, row, target_col_id, target_row) ==
    IF col_id = target_col_id /\ row = target_row THEN CycleFound
    ELSE IF detect_cycle_loop(tbl, target_col_id, target_row, col_id, row,
                              {<<col_id, row>>}) = CycleFound THEN CycleFound
    ELSE detect_cycle_loop(tbl, col_id, row, target_col_id, target_row,
                           {<<target_col_id, target_row>>})

\* Db::detect_cycle: Ok(true), Ok(false), or NoReturn.
detect_cycle(tbl, col_id, row, target_col_id, target_row) ==
    IF col_id = target_col_id /\ row = target_row THEN CycleFound
    ELSE detect_cycle_loop(tbl, col_id, row, target_col_id, target_row,
                           {<<target_col_id, target_row>>})

\* ------------------------------------------------------------------------
\* new_sheet
\* ------------------------------------------------------------------------

\* What a step of a transaction returns: the database it leaves, or an error.
Done(db) == [ok |-> TRUE, db |-> db]
Failed == [ok |-> FALSE]

\* The table `sheets` has no PRIMARY KEY: every token is inserted.
register_random_sheetid_NoPrimaryKey(db, sheetid) ==
    Done([db EXCEPT !.sheets = @ \cup {sheetid}])

\* Db::register_random_sheetid with `sheetid` the token SheetId::generate
\* drew: INSERT INTO sheets (id) VALUES (?) RETURNING id.  A token that is
\* already a PRIMARY KEY of `sheets` fails the statement.
register_random_sheetid(db, sheetid) ==
    IF sheetid \in db.sheets THEN Failed
    ELSE Done([db EXCEPT !.sheets = @ \cup {sheetid}])

\* Db::build_columns_table: CREATE TABLE sheet_<id>_columns, then one INSERT
\* of (i, name, type) for every column.  push_values over no column leaves
\* the statement without a tuple after VALUES, and the store rejects it.
build_columns_table(db, sheetid, schema) ==
    IF sheetid \in DOMAIN db.columns \/ Len(schema) = 0 THEN Failed
    ELSE Done([db EXCEPT !.columns =
            [s \in DOMAIN @ \cup {sheetid} |->
                IF s = sheetid
                THEN [i \in 1 .. Len(schema) |->
                        [name |-> schema[i].name, type |-> get_sql_text(schema[i].kind)]]
                ELSE @[s]]])

\* Db::build_sheet_table: CREATE TABLE sheet_<id> (row, col0, col1, ...).
build_sheet_table(db, sheetid, schema) ==
    IF sheetid \in DOMAIN db.data THEN Failed
    ELSE Done([db EXCEPT !.data =
            [s \in DOMAIN @ \cup {sheetid} |-> IF s = sheetid THEN <<>> ELSE @[s]]])

\* The name of the unique index on (col_id, row) of a lookup table.
LookupIndexName(sheetid) == "index_lookups"

\* Db::build_lookup_table: CREATE TABLE sheet_<id>_lookups, then CREATE UNIQUE
\* INDEX; index names are unique in the database.
build_lookup_table(db, sheetid) ==
    IF sheetid \in DOMAIN db.lookups \/ LookupIndexName(sheetid) \in db.indexes
    THEN Failed
    ELSE Done([db EXCEPT
            !.lookups = [s \in DOMAIN @ \cup {sheetid} |-> IF s = sheetid THEN {} ELSE @[s]],
            !.indexes = @ \cup {LookupIndexName(sheetid)}])

\* Db::new_sheet with `sheetid` the token drawn.  An error before the commit
\* drops the transaction: the database is as before.
new_sheet(db, schema, sheetid) ==
    IF ~is_valid(schema) THEN [result |-> InvalidSchema, db |-> db]
    ELSE LET t1 == register_random_sheetid(db, sheetid) IN
    IF ~t1.ok THEN [result |-> StorageFailure, db |-> db]
    ELSE LET t2 == build_columns_table(t1.db, sheetid, schema) IN
    IF ~t2.ok THEN [result |-> StorageFailure, db |-> db]
    ELSE LET t3 == build_sheet_table(t2.db, sheetid, schema) IN
    IF ~t3.ok THEN [result |-> StorageFailure, db |-> db]
    ELSE LET t4 == build_lookup_table(t3.db, sheetid) IN
    IF ~t4.ok THEN [result |-> StorageFailure, db |-> db]
    ELSE [result |-> Ok, db |-> t4.db]

\* ------------------------------------------------------------------------
\* insert_cell
\* ------------------------------------------------------------------------

\* The literal is left in place.
NullLiteral_Skip(tbl, col_id, row) == tbl

\* Every column of the row is set to NULL.
NullLiteral_WholeRow(tbl, col_id, row) ==
    [r \in DOMAIN tbl |-> IF r = row THEN [c \in DOMAIN tbl[r] |-> SqlNull] ELSE tbl[r]]

\* UPDATE sheet_<id> SET col<c> = NULL WHERE row = ?
NullLiteral(tbl, col_id, row) ==
    [r \in DOMAIN tbl |-> IF r = row THEN [tbl[r] EXCEPT ![col_id] = SqlNull] ELSE tbl[r]]

\* The row is added beside the rows the table has: no conflict on (col_id, row).
UpsertLookup_AddRow(tbl, col_id, row, target_col_id, target_row) ==
    tbl \cup {[col_id |-> col_id, row |-> row,
               target_col_id |-> target_col_id, target_row |-> target_row]}

\* INSERT INTO sheet_<id>_lookups ... ON CONFLICT(col_id, row) DO UPDATE SET
\* target_col_id = excluded.target_col_id, target_row = excluded.target_row
UpsertLookup(tbl, col_id, row, target_col_id, target_row) ==
    IF \E e \in tbl : e.col_id = col_id /\ e.row = row
    THEN {IF e.col_id = col_id /\ e.row = row
            THEN [e EXCEPT !.target_col_id = target_col_id, !.target_row = target_row]
            ELSE e : e \in tbl}
    ELSE tbl \cup {[col_id |-> col_id, row |-> row,
                    target_col_id |-> target_col_id, target_row |-> target_row]}

\* No row is deleted.
DeleteLookup_Keep(tbl, col_id, row) == tbl

\* DELETE FROM sheet_<id>_lookups WHERE col_id = ? AND row = ?
DeleteLookup(tbl, col_id, row) ==
    {e \in tbl : ~(e.col_id = col_id /\ e.row = row)}

\* ON CONFLICT(row) DO NOTHING: an existing row keeps what it has.
UpsertLiteral_DoNothing(tbl, ncols, col_id, row, sql) ==
    [r \in DOMAIN tbl \cup {row} |->
        IF r \in DOMAIN tbl THEN tbl[r]
        ELSE [c \in 0 .. ncols - 1 |-> IF c = col_id THEN sql ELSE SqlNull]]

\* INSERT INTO sheet_<id> (row, col<c>) VALUES (?, ?) ON CONFLICT(row) DO
\* UPDATE SET col<c> = excluded.col<c>; a new row has NULL in its other columns.
UpsertLiteral(tbl, ncols, col_id, row, sql) ==
    [r \in DOMAIN tbl \cup {row} |->
        IF r # row THEN tbl[r]
        ELSE IF r \in DOMAIN tbl THEN [tbl[r] EXCEPT ![col_id] = sql]
        ELSE [c \in 0 .. ncols - 1 |-> IF c = col_id THEN sql ELSE SqlNull]]

\* The kinds of the two columns are not compared.
insert_lookup_NoKindCheck(db, sheetid, col, row, target, target_row) ==
    LET found == detect_cycle(db.lookups[sheetid], col.id, row, target.id, target_row) IN
    IF found = NoReturn THEN [result |-> NoReturn, db |-> db]
    ELSE IF found = CycleFound THEN [result |-> CycleDetected, db |-> db]
    ELSE [result |-> Ok,
          db |-> [db EXCEPT
                    !.data[sheetid] = NullLiteral(@, col.id, row),
                    !.lookups[sheetid] = UpsertLookup(@, col.id, row, target.id, target_row)]]

\* The edge is written with a plain INSERT: the unique index on (col_id, row)
\* refuses it for a cell that has an edge.
insert_lookup_PlainInsert(db, sheetid, col, row, target, target_row) ==
    IF col.kind # target.kind THEN [result |-> TargetTypeMismatch, db |-> db]
    ELSE LET found == detect_cycle(db.lookups[sheetid], col.id, row, target.id, target_row) IN
    IF found = NoReturn THEN [result |-> NoReturn, db |-> db]
    ELSE IF found = CycleFound THEN [result |-> CycleDetected, db |-> db]
    ELSE IF FetchLookup(db.lookups[sheetid], col.id, row) # None
    THEN [result |-> StorageFailure, db |-> db]
    ELSE [result |-> Ok,
          db |-> [db EXCEPT
                    !.data[sheetid] = NullLiteral(@, col.id, row),
                    !.lookups[sheetid] = UpsertLookup(@, col.id, row, target.id, target_row)]]

\* A lookup to a cell that holds neither a literal nor an edge is refused.
insert_lookup_TargetMustExist(db, sheetid, col, row, target, target_row) ==
    IF col.kind # target.kind THEN [result |-> TargetTypeMismatch, db |-> db]
    ELSE IF /\ FetchLookup(db.lookups[sheetid], target.id, target_row) = None
            /\ ~(target_row \in DOMAIN db.data[sheetid]
                 /\ db.data[sheetid][target_row][target.id] # SqlNull)
    THEN [result |-> UnknownTargetColumn, db |-> db]
    ELSE LET found == detect_cycle(db.lookups[sheetid], col.id, row, target.id, target_row) IN
    IF found = NoReturn THEN [result |-> NoReturn, db |-> db]
    ELSE IF found = CycleFound THEN [result |-> CycleDetected, db |-> db]
    ELSE [result |-> Ok,
          db |-> [db EXCEPT
                    !.data[sheetid] = NullLiteral(@, col.id, row),
                    !.lookups[sheetid] = UpsertLookup(@, col.id, row, target.id, target_row)]]

\* detect_cycle reads the edges of every sheet of the database.
insert_lookup_EdgesOfAllSheets(db, sheetid, col, row, target, target_row) ==
    IF col.kind # target.kind THEN [result |-> TargetTypeMismatch, db |-> db]
    ELSE LET found == detect_cycle(UNION {db.lookups[s] : s \in DOMAIN db.lookups},
                                   col.id, row, target.id, target_row) IN
    IF found = NoReturn THEN [result |-> NoReturn, db |-> db]
    ELSE IF found = CycleFound THEN [result |-> CycleDetected, db |-> db]
    ELSE [result |-> Ok,
          db |-> [db EXCEPT
                    !.data[sheetid] = NullLiteral(@, col.id, row),
                    !.lookups[sheetid] = UpsertLookup(@, col.id, row, target.id, target_row)]]

\* The lookup branch of Db::insert_cell, after both columns are resolved.
insert_lookup(db, sheetid, col, row, target, target_row) ==
    IF col.kind # target.kind THEN [result |-> TargetTypeMismatch, db |-> db]
    ELSE LET found == detect_cycle(db.lookups[sheetid], col.id, row, target.id, target_row) IN
    IF found = NoReturn THEN [result |-> NoReturn, db |-> db]
    ELSE IF found = CycleFound THEN [result |-> CycleDetected, db |-> db]
    ELSE [result |-> Ok,
          db |-> [db EXCEPT
                    !.data[sheetid] = NullLiteral(@, col.id, row),
                    !.lookups[sheetid] = UpsertLookup(@, col.id, row, target.id, target_row)]]

\* The literal branch of Db::insert_cell.
insert_literal(db, sheetid, col, row, value) ==
    IF col.kind # KindOfValue(value) THEN [result |-> TypeMismatch, db |-> db]
    ELSE [result |-> Ok,
          db |-> [db EXCEPT
                    !.lookups[sheetid] = DeleteLookup(@, col.id, row),
                    !.data[sheetid] = UpsertLiteral(@, Len(db.columns[sheetid]),
                                                    col.id, row, Bind(value))]]

\* The registry is not consulted: the catalog query on the missing table is
\* what fails.
insert_cell_NoSheetCheck(db, sheetid, cell) ==
    IF ~sheet_exists(db, sheetid) THEN [result |-> StorageFailure, db |-> db]
    ELSE LET col == get_column_by_name(db, sheetid, cell.column) IN
    IF col = None THEN [result |-> UnknownColumn, db |-> db]
    ELSE LET lookup == is_lookup(cell.value) IN
    IF lookup # None
    THEN LET target == get_column_by_name(db, sheetid, lookup.target_col) IN
         IF target = None THEN [result |-> UnknownTargetColumn, db |-> db]
         ELSE insert_lookup(db, sheetid, col, cell.row, target, lookup.target_row)
    ELSE insert_literal(db, sheetid, col, cell.row, cell.value)

\* A target column that is not found is taken to be the written column.
insert_cell_TargetDefaultsToSource(db, sheetid, cell) ==
    IF ~sheet_exists(db, sheetid) THEN [result |-> SheetNotFound, db |-> db]
    ELSE LET col == get_column_by_name(db, sheetid, cell.column) IN
    IF col = None THEN [result |-> UnknownColumn, db |-> db]
    ELSE LET lookup == is_lookup(cell.value) IN
    IF lookup # None
    THEN LET target == get_column_by_name(db, sheetid, lookup.target_col) IN
         insert_lookup(db, sheetid, col, cell.row,
                       IF target = None THEN col ELSE target, lookup.target_row)
    ELSE insert_literal(db, sheetid, col, cell.row, cell.value)

\* A column that is not in the catalog is added to it, with the kind of the
\* value and NULL in every row.
insert_cell_AddsColumn(db, sheetid, cell) ==
    IF ~sheet_exists(db, sheetid) THEN [result |-> SheetNotFound, db |-> db]
    ELSE LET col == get_column_by_name(db, sheetid, cell.column) IN
    IF col = None
    THEN [result |-> Ok,
          db |-> [db EXCEPT
                    !.columns[sheetid] =
                        Append(@, [name |-> cell.column,
                                   type |-> get_sql_text(KindOfValue(cell.value))]),
                    !.data[sheetid] =
                        [r \in DOMAIN @ |->
                            [c \in 0 .. Len(db.columns[sheetid]) |->
                                IF c < Len(db.columns[sheetid]) THEN @[r][c] ELSE SqlNull]]]]
    ELSE LET lookup == is_lookup(cell.value) IN
    IF lookup # None
    THEN LET target == get_column_by_name(db, sheetid, lookup.target_col) IN
         IF target = None THEN [result |-> UnknownTargetColumn, db |-> db]
         ELSE insert_lookup(db, sheetid, col, cell.row, target, lookup.target_row)
    ELSE insert_literal(db, sheetid, col, cell.row, cell.value)

\* A text written to a String column is stored as it is: the pattern is
\* tried for the other columns only.
insert_cell_TextIntoStringColumn(db, sheetid, cell) ==
    IF ~sheet_exists(db, sheetid) THEN [result |-> SheetNotFound, db |-> db]
    ELSE LET col == get_column_by_name(db, sheetid, cell.column) IN
    IF col = None THEN [result |-> UnknownColumn, db |-> db]
    ELSE LET lookup == IF col.kind = "String" THEN None ELSE is_lookup(cell.value) IN
    IF lookup # None
    THEN LET target == get_column_by_name(db, sheetid, lookup.target_col) IN
         IF target = None THEN [result |-> UnknownTargetColumn, db |-> db]
         ELSE insert_lookup(db, sheetid, col, cell.row, target, lookup.target_row)
    ELSE insert_literal(db, sheetid, col, cell.row, cell.value)

\* Db::insert_cell: the outcome and the database after the call.
insert_cell(db, sheetid, cell) ==
    IF ~sheet_exists(db, sheetid) THEN [result |-> SheetNotFound, db |-> db]
    ELSE LET col == get_column_by_name(db, sheetid, cell.column) IN
    IF col = None THEN [result |-> UnknownColumn, db |-> db]
    ELSE LET lookup == is_lookup(cell.value) IN
    IF lookup # None
    THEN LET target == get_column_by_name(db, sheetid, lookup.target_col) IN
         IF target = None THEN [result |-> UnknownTargetColumn, db |-> db]
         ELSE insert_lookup(db, sheetid, col, cell.row, target, lookup.target_row)
    ELSE insert_literal(db, sheetid, col, cell.row, cell.value)

\* ------------------------------------------------------------------------
\* get_sheet
\* ------------------------------------------------------------------------

\* Option<CellValue>::None, the null of the output.
NullValue == [kind |-> "Null"]

\* Db::get_column_table: (name, kind) of every column, ORDER BY id ASC.
get_column_table(db, sheetid) ==
    [i \in 1 .. Len(db.columns[sheetid]) |->
        [name |-> db.columns[sheetid][i].name,
         kind |-> from_sql_text(db.columns[sheetid][i].type)]]

\* Db::get_column_content: SELECT row, col<c> ... WHERE NOT col<c> IS NULL,
\* collected into a map row -> Some(value).
get_column_content(db, sheetid, kind, col_id) ==
    LET tbl == db.data[sheetid]
    IN [r \in {r \in DOMAIN tbl : tbl[r][col_id] # SqlNull} |-> DecodeAs(kind, tbl[r][col_id])]

\* Db::get_lookups: the rows of the lookup table collected into a map
\* (col_id, row) -> (target_col_id, target_row).
get_lookups(db, sheetid) ==
    LET tbl == db.lookups[sheetid]
        keys == {<<e.col_id, e.row>> : e \in tbl}
    IN [k \in keys |->
            LET e == CHOOSE e \in tbl : e.col_id = k[1] /\ e.row = k[2]
            IN <<e.target_col_id, e.target_row>>]

\* Only the last cell pushed receives the value.
InsertAll_OnlyLast(content, stack, val) ==
    [c \in DOMAIN content |->
        LET rows == {stack[i][2] : i \in {i \in 1 .. Len(stack) : i = Len(stack) /\ stack[i][1] = c}}
        IN [r \in DOMAIN content[c] \cup rows |-> IF r \in rows THEN val ELSE content[c][r]]]

\* A null is not inserted.
InsertAll_SkipNull(content, stack, val) ==
    [c \in DOMAIN content |->
        LET rows == {stack[i][2] : i \in {i \in 1 .. Len(stack) : stack[i][1] = c /\ val # NullValue}}
        IN [r \in DOMAIN content[c] \cup rows |-> IF r \in rows THEN val ELSE content[c][r]]]

\* Only the cell the walk started at receives the value.
InsertAll_OnlyFirst(content, stack, val) ==
    [c \in DOMAIN content |->
        LET rows == {stack[i][2] : i \in {i \in 1 .. Len(stack) : i = 1 /\ stack[i][1] = c}}
        IN [r \in DOMAIN content[c] \cup rows |-> IF r \in rows THEN val ELSE content[c][r]]]

\* for key in &stack { regular_content[key.0].insert(key.1, val.clone()) }
InsertAll(content, stack, val) ==
    [c \in DOMAIN content |->
        LET rows == {stack[i][2] : i \in {i \in 1 .. Len(stack) : stack[i][1] = c}}
        IN [r \in DOMAIN content[c] \cup rows |-> IF r \in rows THEN val ELSE content[c][r]]]

\* regular_content[current_key.0].get(&current_key.1).cloned().flatten()
ValueAt(content, key) ==
    IF key[2] \in DOMAIN content[key[1]] THEN content[key[1]][key[2]] ELSE NullValue

\* The flag is ignored: the value found is given to the stack in every case.
FinishWalk_IgnoreFlag(content, current_key, stack, no_lookup_nulls) ==
    InsertAll(content, stack, ValueAt(content, current_key))

\* The else branch of the inner loop of Db::get_sheet: current_key has no
\* pending edge.
FinishWalk(content, current_key, stack, no_lookup_nulls) ==
    IF ~no_lookup_nulls
    THEN InsertAll(content, stack, ValueAt(content, current_key))
    ELSE content

\* The inner loop of Db::get_sheet from current_key: follows and removes the
\* pending edges, then gives the value found at the end to the cells of the
\* stack unless no_lookup_nulls is set.
RECURSIVE WalkChain(_, _, _, _, _)
WalkChain(content, unresolved, current_key, stack, no_lookup_nulls) ==
    IF current_key \in DOMAIN unresolved
    THEN WalkChain(content,
                   [k \in DOMAIN unresolved \ {current_key} |-> unresolved[k]],
                   unresolved[current_key], Append(stack, current_key), no_lookup_nulls)
    ELSE [content |-> FinishWalk(content, current_key, stack, no_lookup_nulls),
          unresolved |-> unresolved]

\* The outer loop of Db::get_sheet.  unresolved_lookups.keys().next() is any
\* pending key (the order of a HashMap): the set of the contents the loop can
\* end with.
RECURSIVE ResolveLookups(_, _, _)
ResolveLookups(content, unresolved, no_lookup_nulls) ==
    IF DOMAIN unresolved = {} THEN {content}
    ELSE UNION {LET w == WalkChain(content, unresolved, k, <<>>, no_lookup_nulls)
                IN ResolveLookups(w.content, w.unresolved, no_lookup_nulls)
                : k \in DOMAIN unresolved}

\* The SheetContent built from the resolved content: column name -> the
\* (row, value) entries of the column, in no particular order.
SheetContent(column_table, content) ==
    [name \in {column_table[i].name : i \in 1 .. Len(column_table)} |->
        LET i == CHOOSE i \in 1 .. Len(column_table) : column_table[i].name = name
        IN {[row |-> r, value |-> content[i - 1][r]] : r \in DOMAIN content[i - 1]}]

\* Db::get_sheet: the outcomes the call can have (what it leaves in the
\* database is get_sheet_tr).
get_sheet(db, sheetid, no_lookup_nulls) ==
    IF ~sheet_exists(db, sheetid) THEN {[result |-> SheetNotFound]}
    ELSE LET column_table == get_column_table(db, sheetid)
             regular_content ==
                [c \in 0 .. Len(column_table) - 1 |->
                    get_column_content(db, sheetid, column_table[c + 1].kind, c)]
             unresolved_lookups == get_lookups(db, sheetid)
         IN {[result |-> Ok, output |-> SheetContent(column_table, content)] :
                content \in ResolveLookups(regular_content, unresolved_lookups, no_lookup_nulls)}

\* The values that the resolver found for the lookup cells are written to
\* the value table before the transaction is committed.
get_sheet_tr_WriteBack(db, sheetid) ==
    IF ~sheet_exists(db, sheetid) THEN db
    ELSE LET outcome == CHOOSE r \in get_sheet(db, sheetid, FALSE) : TRUE
             tbl == db.data[sheetid]
             ncols == Len(db.columns[sheetid])
             found(c, r) == {y.value : y \in {y \in outcome.output[db.columns[sheetid][c + 1].name] :
                                                y.row = r /\ y.value # NullValue}}
             keys == {<<e.col_id, e.row>> : e \in db.lookups[sheetid]}
             rows == DOMAIN tbl \cup {k[2] : k \in {k \in keys : found(k[1], k[2]) # {}}}
         IN [db EXCEPT !.data[sheetid] =
                [r \in rows |->
                    [c \in 0 .. ncols - 1 |->
                        IF <<c, r>> \in keys /\ found(c, r) # {}
                        THEN Bind(CHOOSE v \in found(c, r) : TRUE)
                        ELSE IF r \in DOMAIN tbl THEN tbl[r][c] ELSE SqlNull]]]

\* The database as the transaction of Db::get_sheet leaves it.  Its
\* statements are SELECTs; it is dropped when the sheet does not exist and
\* committed before the lookups are resolved, and the resolver works on the
\* maps in memory.
get_sheet_tr(db, sheetid) == db

\* ------------------------------------------------------------------------
\* The requests
\* ------------------------------------------------------------------------

NameA == <<"A">>
NameB == <<"B">>
NameB2 == <<"B", "2">>

\* The schemas new_sheet is given: two valid ones, one with a duplicate name,
\* one with a double quote in a name, and the empty one.
Schemas ==
    { <<SchemaColumn(NameB, "Int"), SchemaColumn(NameB2, "Int")>>,
      <<SchemaColumn(NameA, "Boolean"), SchemaColumn(NameB, "Int")>>,
      <<SchemaColumn(NameA, "Boolean"), SchemaColumn(NameA, "Int")>>,
      <<SchemaColumn(<<Quote, "A", Quote>>, "Boolean")>>,
      <<>> }

\* The decimal digits of a natural number.
RECURSIVE ToDigits(_)
ToDigits(n) == IF n < 10 THEN <<DigitChar(n)>> ELSE Append(ToDigits(n \div 10), DigitChar(n % 10))

\* The text lookup("<name>", <row>)
LookupText(name, row) ==
    LookupPrefix \o <<Quote>> \o name \o <<Quote, ",", " ">> \o ToDigits(row) \o <<")">>

\* A text with characters before `lookup`, as in tests/integration_test.rs.
NotLookupText == <<"x">> \o LookupText(NameB, 0)

ColumnNames == {NameA, NameB, NameB2}

Values ==
    {Boolean(TRUE), Int64(10), Int64(42)}
    \cup {String(LookupText(n, r)) : n \in ColumnNames, r \in Rows}
    \cup {String(NotLookupText)}

Cells == [column : ColumnNames, row : Rows, value : Values]

\* ------------------------------------------------------------------------
\* The state machine: calls are answered one at a time
\* ------------------------------------------------------------------------

Idle == [name |-> "idle"]

\* The number of cells of a sheet that have a representation.
CellCount(db, sheetid) ==
    Cardinality(db.lookups[sheetid])
    + Cardinality({<<r, c>> \in (DOMAIN db.data[sheetid]) \X (0 .. Len(db.columns[sheetid]) - 1) :
                        db.data[sheetid][r][c] # SqlNull})

Commit(db) ==
    /\ sheets' = db.sheets
    /\ columns' = db.columns
    /\ data' = db.data
    /\ lookups' = db.lookups
    /\ indexes' = db.indexes

\* Db::new_inner: the table `sheets` exists and is empty.
Init ==
    /\ sheets = {}
    /\ columns = <<>>
    /\ data = <<>>
    /\ lookups = <<>>
    /\ indexes = {}
    /\ op = Idle

NewSheet(schema, sheetid) ==
    /\ op = Idle
    /\ LET r == new_sheet(Store, schema, sheetid)
       IN /\ Commit(r.db)
          /\ op' = [name |-> "new_sheet", schema |-> schema, sheetid |-> sheetid,
                    result |-> r.result]

\* What the cell a call addresses holds when the call is made: a lookup
\* edge, a literal, or nothing (also when the sheet or the column is unknown).
Held(db, sheetid, cell) ==
    IF ~sheet_exists(db, sheetid) THEN "nothing"
    ELSE LET col == get_column_by_name(db, sheetid, cell.column) IN
    IF col = None THEN "nothing"
    ELSE IF FetchLookup(db.lookups[sheetid], col.id, cell.row) # None THEN "edge"
    ELSE IF cell.row \in DOMAIN db.data[sheetid]
            /\ db.data[sheetid][cell.row][col.id] # SqlNull THEN "literal"
    ELSE "nothing"

InsertCell(sheetid, cell) ==
    /\ op = Idle
    /\ LET r == insert_cell(Store, sheetid, cell)
       IN /\ r.result = Ok => CellCount(r.db, sheetid) <= MaxCells
          /\ Commit(r.db)
          /\ op' = [name |-> "insert_cell", sheetid |-> sheetid, cell |-> cell,
                    result |-> r.result, held |-> Held(Store, sheetid, cell)]

GetSheet(sheetid, no_lookup_nulls) ==
    /\ op = Idle
    /\ \E r \in get_sheet(Store, sheetid, no_lookup_nulls) :
          op' = [name |-> "get_sheet", sheetid |-> sheetid,
                 no_lookup_nulls |-> no_lookup_nulls] @@ r
    /\ Commit(get_sheet_tr(Store, sheetid))

\* The response is delivered; the next call can be made.
Respond ==
    /\ op # Idle
    /\ op' = Idle
    /\ UNCHANGED <<sheets, columns, data, lookups, indexes>>

Next ==
    \/ \E schema \in Schemas, sheetid \in DrawnIds : NewSheet(schema, sheetid)
    \/ \E sheetid \in SheetIds, cell \in Cells : InsertCell(sheetid, cell)
    \/ \E sheetid \in SheetIds, flag \in BOOLEAN : GetSheet(sheetid, flag)
    \/ Respond

Spec == Init /\ [][Next]_vars

\* ------------------------------------------------------------------------
\* Vocabulary of the properties
\* ------------------------------------------------------------------------

StoreUnchanged == UNCHANGED <<sheets, columns, data, lookups, indexes>>

\* The cells a set of cells reaches by following the edges of a lookup
\* table any number of times (the cells themselves included).
RECURSIVE ReachFrom(_, _)
ReachFrom(tbl, from) ==
    LET more == from \cup {<<e.target_col_id, e.target_row>> :
                            e \in {e \in tbl : <<e.col_id, e.row>> \in from}}
    IN IF more = from THEN from ELSE ReachFrom(tbl, more)

Acyclic(tbl) ==
    \A e \in tbl : <<e.col_id, e.row>> \notin ReachFrom(tbl, {<<e.target_col_id, e.target_row>>})

HasEdge(tbl, key) == \E e \in tbl : <<e.col_id, e.row>> = key

\* The cell at the end of the chain of a cell: the walk stops at a cell
\* without edge, or after `fuel` edges.
RECURSIVE ChainEnd(_, _, _)
ChainEnd(tbl, key, fuel) ==
    IF fuel = 0 \/ ~HasEdge(tbl, key) THEN key
    ELSE LET e == CHOOSE e \in tbl : <<e.col_id, e.row>> = key
         IN ChainEnd(tbl, <<e.target_col_id, e.target_row>>, fuel - 1)

\* What a value table holds for a cell (NULL without a row).
LiteralIn(tbl, key) ==
    IF key[2] \in DOMAIN tbl THEN tbl[key[2]][key[1]] ELSE SqlNull

Literal(sheetid, key) == LiteralIn(data[sheetid], key)

ColumnName(sheetid, col_id) == columns[sheetid][col_id + 1].name
ColumnKind(sheetid, col_id) == from_sql_text(columns[sheetid][col_id + 1].type)

\* The literal a cell holds as get_sheet reports it.
LiteralValue(sheetid, key) == DecodeAs(ColumnKind(sheetid, key[1]), Literal(sheetid, key))

\* The entries of the output of get_sheet for a cell.
EntriesAt(output, sheetid, key) ==
    {x \in output[ColumnName(sheetid, key[1])] : x.row = key[2]}

CalledInsertCell == op.name = "insert_cell"
CalledGetSheet == op.name = "get_sheet"

\* A step that answers an insert_cell call: the call is op', the state
\* before the call is the unprimed one.
AnswersInsertCell == op = Idle /\ op'.name = "insert_cell"

IsTypeMismatch(result) == result \in {TypeMismatch, TargetTypeMismatch}

\* ------------------------------------------------------------------------
\* C1  The lookup edges of every sheet never contain a directed cycle of any
\* length, self-loops included, whatever set_cell calls were made.
\* ------------------------------------------------------------------------
C1_EdgesAcyclic == \A s \in DOMAIN lookups : Acyclic(lookups[s])

\* A call that would have closed a cycle over two stored edges was answered.
C1_Witness ==
    /\ CalledInsertCell
    /\ op.result = CycleDetected
    /\ Cardinality(lookups[op.sheetid]) >= 2
    /\ LET col == get_column_by_name(Store, op.sheetid, op.cell.column)
           lookup == is_lookup(op.cell.value)
           target == get_column_by_name(Store, op.sheetid, lookup.target_col)
       IN <<target.id, lookup.target_row>> # <<col.id, op.cell.row>>

\* ------------------------------------------------------------------------
\* C2  A set_cell with a lookup whose target cell reaches the source cell
\* over the stored edges (in zero or more steps) fails with CycleDetected and
\* leaves the literals and the edges as they were.
\* ------------------------------------------------------------------------
C2_CycleRejected ==
    [][ (/\ AnswersInsertCell
         /\ sheet_exists(Store, op'.sheetid)
         /\ LET col == get_column_by_name(Store, op'.sheetid, op'.cell.column)
                lookup == is_lookup(op'.cell.value)
            IN /\ col # None
               /\ lookup # None
               /\ LET target == get_column_by_name(Store, op'.sheetid, lookup.target_col)
                  IN /\ target # None
                     /\ <<col.id, op'.cell.row>> \in
                            ReachFrom(lookups[op'.sheetid], {<<target.id, lookup.target_row>>}))
        => (op'.result = CycleDetected /\ StoreUnchanged) ]_vars

\* A rejected cycle of three edges: the target's edge leads to a third cell.
C2_Witness ==
    /\ CalledInsertCell
    /\ op.result = CycleDetected
    /\ LET col == get_column_by_name(Store, op.sheetid, op.cell.column)
           lookup == is_lookup(op.cell.value)
           target == get_column_by_name(Store, op.sheetid, lookup.target_col)
           next == FetchLookup(lookups[op.sheetid], target.id, lookup.target_row)
       IN /\ <<target.id, lookup.target_row>> # <<col.id, op.cell.row>>
          /\ next # None
          /\ <<next.col_id, next.row>> # <<col.id, op.cell.row>>

\* ------------------------------------------------------------------------
\* C3  No cell has both a non-NULL literal and an outgoing edge; after a
\* successful literal write the cell has a literal and no edge, after a
\* successful lookup write it has an edge and no literal.
\* ------------------------------------------------------------------------
C3_OneRepresentation ==
    /\ \A s \in DOMAIN lookups : \A e \in lookups[s] : Literal(s, <<e.col_id, e.row>>) = SqlNull
    /\ (CalledInsertCell /\ op.result = Ok) =>
            LET col == get_column_by_name(Store, op.sheetid, op.cell.column)
                key == <<col.id, op.cell.row>>
            IN IF is_lookup(op.cell.value) = None
               THEN Literal(op.sheetid, key) # SqlNull /\ ~HasEdge(lookups[op.sheetid], key)
               ELSE Literal(op.sheetid, key) = SqlNull /\ HasEdge(lookups[op.sheetid], key)

\* A lookup was written to a cell that held a literal: its row exists in the
\* value table, and no other cell of the row was ever written.
C3_Witness ==
    /\ CalledInsertCell
    /\ op.result = Ok
    /\ is_lookup(op.cell.value) # None
    /\ op.cell.row \in DOMAIN data[op.sheetid]
    /\ \A c \in DOMAIN data[op.sheetid][op.cell.row] :
            /\ data[op.sheetid][op.cell.row][c] = SqlNull
            /\ (c # get_column_by_name(Store, op.sheetid, op.cell.column).id
                    => ~HasEdge(lookups[op.sheetid], <<c, op.cell.row>>))

\* The cells of a sheet that hold a lookup, as keys.
LookupCells(sheetid) == {<<e.col_id, e.row>> : e \in lookups[sheetid]}

\* The cell that ends the chain of a cell of a sheet.
Terminal(sheetid, key) == ChainEnd(lookups[sheetid], key, Cardinality(lookups[sheetid]))

\* ------------------------------------------------------------------------
\* C4  Without suppression, get_sheet reports every lookup cell whose chain
\* ends at a cell holding a literal V with the value V, once.
\* ------------------------------------------------------------------------
C4_ChainResolution ==
    (CalledGetSheet /\ op.result = Ok /\ ~op.no_lookup_nulls) =>
        \A key \in LookupCells(op.sheetid) :
            LET end == Terminal(op.sheetid, key)
            IN Literal(op.sheetid, end) # SqlNull =>
                    EntriesAt(op.output, op.sheetid, key)
                        = {[row |-> key[2], value |-> LiteralValue(op.sheetid, end)]}

\* A chain of two edges that crosses columns and ends at a literal.
C4_Witness ==
    /\ CalledGetSheet /\ op.result = Ok /\ ~op.no_lookup_nulls
    /\ \E e1, e2 \in lookups[op.sheetid] :
            /\ <<e1.target_col_id, e1.target_row>> = <<e2.col_id, e2.row>>
            /\ e1.col_id # e2.col_id
            /\ Literal(op.sheetid, <<e2.target_col_id, e2.target_row>>) # SqlNull

\* ------------------------------------------------------------------------
\* C5  With suppression, get_sheet still reports every lookup cell whose
\* chain ends at a cell holding a literal V with the value V.
\* ------------------------------------------------------------------------
C5_SuppressionKeepsResolved ==
    (CalledGetSheet /\ op.result = Ok /\ op.no_lookup_nulls) =>
        \A key \in LookupCells(op.sheetid) :
            LET end == Terminal(op.sheetid, key)
            IN Literal(op.sheetid, end) # SqlNull =>
                    EntriesAt(op.output, op.sheetid, key)
                        = {[row |-> key[2], value |-> LiteralValue(op.sheetid, end)]}

\* ------------------------------------------------------------------------
\* C6  Without suppression, get_sheet reports every lookup cell whose chain
\* ends at a cell without literal with the value null.
\* ------------------------------------------------------------------------
C6_BrokenChainNull ==
    (CalledGetSheet /\ op.result = Ok /\ ~op.no_lookup_nulls) =>
        \A key \in LookupCells(op.sheetid) :
            Literal(op.sheetid, Terminal(op.sheetid, key)) = SqlNull =>
                EntriesAt(op.output, op.sheetid, key) = {[row |-> key[2], value |-> NullValue]}

\* A broken chain of two edges.
C6_Witness ==
    /\ CalledGetSheet /\ op.result = Ok /\ ~op.no_lookup_nulls
    /\ \E e1, e2 \in lookups[op.sheetid] :
            /\ <<e1.target_col_id, e1.target_row>> = <<e2.col_id, e2.row>>
            /\ ~HasEdge(lookups[op.sheetid], <<e2.target_col_id, e2.target_row>>)
            /\ Literal(op.sheetid, <<e2.target_col_id, e2.target_row>>) = SqlNull

\* ------------------------------------------------------------------------
\* C7  With suppression, get_sheet has no entry at all for a lookup cell
\* whose chain ends at a cell without literal, and still lists its column.
\* ------------------------------------------------------------------------
C7_BrokenChainOmitted ==
    (CalledGetSheet /\ op.result = Ok /\ op.no_lookup_nulls) =>
        \A key \in LookupCells(op.sheetid) :
            Literal(op.sheetid, Terminal(op.sheetid, key)) = SqlNull =>
                /\ ColumnName(op.sheetid, key[1]) \in DOMAIN op.output
                /\ EntriesAt(op.output, op.sheetid, key) = {}

\* A broken chain of two edges read with suppression.
C7_Witness ==
    /\ CalledGetSheet /\ op.result = Ok /\ op.no_lookup_nulls
    /\ \E e1, e2 \in lookups[op.sheetid] :
            /\ <<e1.target_col_id, e1.target_row>> = <<e2.col_id, e2.row>>
            /\ ~HasEdge(lookups[op.sheetid], <<e2.target_col_id, e2.target_row>>)
            /\ Literal(op.sheetid, <<e2.target_col_id, e2.target_row>>) = SqlNull

\* ------------------------------------------------------------------------
\* C8  get_sheet reports a cell that holds a literal with exactly the value
\* of the last successful literal write to it: a successful literal write
\* stores its value, and nothing but a successful set_cell on the same cell
\* (no failed write, no write to another cell, no read) changes what the
\* cell holds.
\* ------------------------------------------------------------------------
AllKeys(sheetid) == (0 .. Len(columns[sheetid]) - 1) \X Rows

C8_ReadsStoredLiteral ==
    (CalledGetSheet /\ op.result = Ok) =>
        \A key \in AllKeys(op.sheetid) :
            (Literal(op.sheetid, key) # SqlNull /\ ~HasEdge(lookups[op.sheetid], key)) =>
                EntriesAt(op.output, op.sheetid, key)
                    = {[row |-> key[2], value |-> LiteralValue(op.sheetid, key)]}

C8_WriteStoresLiteral ==
    (AnswersInsertCell /\ op'.result = Ok /\ is_lookup(op'.cell.value) = None) =>
        LET col == get_column_by_name(Store, op'.sheetid, op'.cell.column)
            stored == LiteralIn(data'[op'.sheetid], <<col.id, op'.cell.row>>)
        IN stored # SqlNull /\ DecodeAs(col.kind, stored) = op'.cell.value

C8_OthersKeepLiteral ==
    \A s \in DOMAIN data : \A key \in AllKeys(s) :
        \/ /\ AnswersInsertCell /\ op'.result = Ok /\ op'.sheetid = s
           /\ get_column_by_name(Store, s, op'.cell.column).id = key[1]
           /\ op'.cell.row = key[2]
        \/ /\ s \in DOMAIN data'
           /\ LiteralIn(data'[s], key) = LiteralIn(data[s], key)

C8_RoundTrip ==
    /\ []C8_ReadsStoredLiteral
    /\ [][C8_WriteStoresLiteral /\ C8_OthersKeepLiteral]_vars

\* A read that reports two literals of one column, one of them 42.
C8_Witness ==
    /\ CalledGetSheet /\ op.result = Ok
    /\ \E name \in DOMAIN op.output : \E x, y \in op.output[name] :
            x.row # y.row /\ x.value = Int64(42) /\ y.value = Int64(10)

\* ------------------------------------------------------------------------
\* C9  A set_cell with a literal whose kind is not the declared kind of the
\* column fails with TypeMismatch and changes neither literals nor edges.
\* ------------------------------------------------------------------------
C9_LiteralTypeMismatch ==
    [][ (/\ AnswersInsertCell
         /\ sheet_exists(Store, op'.sheetid)
         /\ LET col == get_column_by_name(Store, op'.sheetid, op'.cell.column)
            IN /\ col # None
               /\ is_lookup(op'.cell.value) = None
               /\ op'.cell.value.kind # col.kind)
        => (op'.result = TypeMismatch /\ StoreUnchanged) ]_vars

\* A literal of the wrong kind was refused for a cell that holds a lookup.
C9_Witness ==
    /\ CalledInsertCell
    /\ op.result = TypeMismatch
    /\ HasEdge(lookups[op.sheetid],
               <<get_column_by_name(Store, op.sheetid, op.cell.column).id, op.cell.row>>)

\* ------------------------------------------------------------------------
\* C10  A set_cell with a lookup to a column of another declared kind fails
\* with TypeMismatch and changes neither literals nor edges; a lookup to
\* another column of the same kind is accepted unless it closes a cycle.
\* ------------------------------------------------------------------------
C10_LookupTypeMismatch ==
    [][ (/\ AnswersInsertCell
         /\ sheet_exists(Store, op'.sheetid)
         /\ get_column_by_name(Store, op'.sheetid, op'.cell.column) # None
         /\ is_lookup(op'.cell.value) # None
         /\ get_column_by_name(Store, op'.sheetid, is_lookup(op'.cell.value).target_col) # None)
        => LET col == get_column_by_name(Store, op'.sheetid, op'.cell.column)
               lookup == is_lookup(op'.cell.value)
               target == get_column_by_name(Store, op'.sheetid, lookup.target_col)
           IN /\ col.kind # target.kind
                    => (IsTypeMismatch(op'.result) /\ StoreUnchanged)
              /\ (col.kind = target.kind /\ col.id # target.id)
                    => IF <<col.id, op'.cell.row>> \in
                            ReachFrom(lookups[op'.sheetid], {<<target.id, lookup.target_row>>})
                       THEN op'.result = CycleDetected
                       ELSE op'.result = Ok ]_vars

\* A lookup to a column of another kind was refused for a cell that holds a
\* literal.
C10_Witness ==
    /\ CalledInsertCell
    /\ IsTypeMismatch(op.result)
    /\ is_lookup(op.cell.value) # None
    /\ Literal(op.sheetid,
               <<get_column_by_name(Store, op.sheetid, op.cell.column).id, op.cell.row>>) # SqlNull

\* The text of a lookup to a cell of a sheet, and the call that writes it
\* to another cell.
LookupTo(sheetid, key) == String(LookupText(ColumnName(sheetid, key[1]), key[2]))

CellAt(sheetid, key, value) ==
    [column |-> ColumnName(sheetid, key[1]), row |-> key[2], value |-> value]

\* The key of the cell a call addresses, in a sheet whose catalog has the
\* column.
KeyOf(sheetid, cell) ==
    <<(CHOOSE i \in 1 .. Len(columns[sheetid]) : columns[sheetid][i].name = cell.column) - 1,
      cell.row>>

\* ------------------------------------------------------------------------
\* C11  A successful literal write to a cell X that holds an edge X -> Y
\* removes the edge: after it X has no edge, every cell X reached over that
\* edge (Y and the cells after it) can be made to look up X with outcome Ok,
\* and get_sheet reports X with the literal, with either flag.
\* ------------------------------------------------------------------------
C11_LiteralRemovesEdge ==
    [][ (/\ AnswersInsertCell
         /\ op'.result = Ok
         /\ is_lookup(op'.cell.value) = None
         /\ HasEdge(lookups[op'.sheetid], KeyOf(op'.sheetid, op'.cell)))
        => LET s == op'.sheetid
               x == KeyOf(s, op'.cell)
               e == CHOOSE e \in lookups[s] : <<e.col_id, e.row>> = x
               after == ReachFrom(lookups[s], {<<e.target_col_id, e.target_row>>})
           IN /\ ~HasEdge(lookups'[s], x)
              /\ \A z \in after :
                    insert_cell(Store', s, CellAt(s, z, LookupTo(s, x))).result = Ok
              /\ \A flag \in BOOLEAN : \A r \in get_sheet(Store', s, flag) :
                    /\ r.result = Ok
                    /\ {y \in r.output[op'.cell.column] : y.row = x[2]}
                            = {[row |-> x[2], value |-> op'.cell.value]} ]_vars

\* A literal was written to a cell that held a lookup, and the sheet has
\* another edge left.
C11_Witness ==
    /\ CalledInsertCell
    /\ op.result = Ok
    /\ is_lookup(op.cell.value) = None
    /\ op.held = "edge"
    /\ lookups[op.sheetid] # {}

\* What get_sheet is to report for a lookup cell of a lookup table `tbl` over
\* a value table `vals`: the literal at the end of its chain, and for a
\* broken chain a null, or no entry under suppression.
ResolvedEntries(sheetid, tbl, vals, key, suppress) ==
    LET end == ChainEnd(tbl, key, Cardinality(tbl))
        v == LiteralIn(vals, end)
    IN IF v # SqlNull
       THEN {[row |-> key[2], value |-> DecodeAs(ColumnKind(sheetid, end[1]), v)]}
       ELSE IF suppress THEN {} ELSE {[row |-> key[2], value |-> NullValue]}

\* ------------------------------------------------------------------------
\* C12  A successful lookup write to a cell X that holds a literal L removes
\* L: after it get_sheet, with either flag, reports X and every cell whose
\* chain passes through X with the value at the end of the new chain (null,
\* or no entry under suppression, if that end has no literal).
\* ------------------------------------------------------------------------
C12_LookupReplacesLiteral ==
    [][ (/\ AnswersInsertCell
         /\ op'.result = Ok
         /\ is_lookup(op'.cell.value) # None
         /\ Literal(op'.sheetid, KeyOf(op'.sheetid, op'.cell)) # SqlNull)
        => LET s == op'.sheetid
               x == KeyOf(s, op'.cell)
               through == {k \in {<<e.col_id, e.row>> : e \in lookups'[s]} :
                                x \in ReachFrom(lookups'[s], {k})}
           IN /\ LiteralIn(data'[s], x) = SqlNull
              /\ x \in through
              /\ \A flag \in BOOLEAN : \A r \in get_sheet(Store', s, flag) :
                    /\ r.result = Ok
                    /\ \A k \in through :
                            {y \in r.output[ColumnName(s, k[1])] : y.row = k[2]}
                                = ResolvedEntries(s, lookups'[s], data'[s], k, flag) ]_vars

\* The same without suppression.
C12_LookupReplacesLiteral_Unsuppressed ==
    [][ (/\ AnswersInsertCell
         /\ op'.result = Ok
         /\ is_lookup(op'.cell.value) # None
         /\ Literal(op'.sheetid, KeyOf(op'.sheetid, op'.cell)) # SqlNull)
        => LET s == op'.sheetid
               x == KeyOf(s, op'.cell)
               through == {k \in {<<e.col_id, e.row>> : e \in lookups'[s]} :
                                x \in ReachFrom(lookups'[s], {k})}
           IN /\ LiteralIn(data'[s], x) = SqlNull
              /\ x \in through
              /\ \A r \in get_sheet(Store', s, FALSE) :
                    /\ r.result = Ok
                    /\ \A k \in through :
                            {y \in r.output[ColumnName(s, k[1])] : y.row = k[2]}
                                = ResolvedEntries(s, lookups'[s], data'[s], k, FALSE) ]_vars

\* ------------------------------------------------------------------------
\* C13  Once a set_cell call has been answered, whatever its outcome, the
\* same call made again has the same outcome and leaves the store, and so
\* the output of get_sheet, as the first call left them.
\* ------------------------------------------------------------------------
C13_RepeatedCall ==
    CalledInsertCell =>
        LET again == insert_cell(Store, op.sheetid, op.cell)
        IN /\ again.result = op.result
           /\ again.db = Store
           /\ \A flag \in BOOLEAN :
                get_sheet(again.db, op.sheetid, flag) = get_sheet(Store, op.sheetid, flag)

\* A lookup was written over a literal, to a target that has an edge of its
\* own: the same call made again finds the edge it stored and walks a chain.
C13_Witness ==
    /\ CalledInsertCell
    /\ op.result = Ok
    /\ op.held = "literal"
    /\ is_lookup(op.cell.value) # None
    /\ Cardinality(lookups[op.sheetid]) >= 2

\* A sheet's catalog has a column of this name.
InCatalog(sheetid, name) ==
    \E i \in 1 .. Len(columns[sheetid]) : columns[sheetid][i].name = name

\* The two messages of the code for a name that is not in the catalog.
IsUnknownColumn(result) == result \in {UnknownColumn, UnknownTargetColumn}

\* ------------------------------------------------------------------------
\* C14  A set_cell on a registered sheet that names a column absent from the
\* catalog, as the written column or as the target column of a lookup, fails
\* with UnknownColumn and leaves the store as it was.
\* ------------------------------------------------------------------------
C14_UnknownColumn ==
    [][ (/\ AnswersInsertCell
         /\ op'.sheetid \in sheets
         /\ \/ ~InCatalog(op'.sheetid, op'.cell.column)
            \/ /\ is_lookup(op'.cell.value) # None
               /\ ~InCatalog(op'.sheetid, is_lookup(op'.cell.value).target_col))
        => (IsUnknownColumn(op'.result) /\ StoreUnchanged) ]_vars

\* A lookup to a column that is not in the catalog was refused for a cell
\* that holds a literal.
C14_Witness ==
    /\ CalledInsertCell
    /\ op.result = UnknownTargetColumn
    /\ op.held = "literal"

\* ------------------------------------------------------------------------
\* C15  set_cell and get_sheet with a sheet id that is not in the registry
\* fail with SheetNotFound; the registry and every table stay as they were.
\* ------------------------------------------------------------------------
C15_SheetNotFound ==
    [][ (/\ op = Idle
         /\ op'.name \in {"insert_cell", "get_sheet"}
         /\ op'.sheetid \notin sheets)
        => (op'.result = SheetNotFound /\ StoreUnchanged) ]_vars

\* A write to a sheet id that was never returned was refused in a store that
\* has another sheet with cells.
C15_Witness ==
    /\ CalledInsertCell
    /\ op.result = SheetNotFound
    /\ op.sheetid \notin sheets
    /\ \E s \in sheets : lookups[s] # {} /\ data[s] # <<>>

\* ------------------------------------------------------------------------
\* new_sheet step by step, for clients whose calls overlap.  Here `op` maps
\* every client to its call, and the store variables hold what is committed.
\* A call keeps the transaction `tr` of Db::new_sheet: the database as its
\* statements have left it, seen by no one else before the commit.
\* ------------------------------------------------------------------------

Clients == {"c1", "c2"}

Pending == "pending"
NoToken == "no token"

\* ROLLBACK, also by the drop of a transaction that was not committed: the
\* database is what was committed.
Rollback_KeepsWrites(committed, tr) == IF tr = None THEN committed ELSE tr

Rollback(committed, tr) == committed

\* A client is between its first write and its commit: SQLite has one writer
\* at a time, and the INSERT of another transaction waits for it.
Writing(c) == op[c] # Idle /\ op[c].pc \in {"columns", "sheet", "lookup", "commit"}

At(c, pc) == op[c] # Idle /\ op[c].pc = pc

\* An error passed up by `?`: the transaction is dropped, the call returns
\* the error.
Abort(c, at, sheetid) ==
    /\ Commit(Rollback(Store, op[c].tr))
    /\ op' = [op EXCEPT ![c] = [@ EXCEPT !.pc = "return", !.result = StorageFailure,
                                        !.at = at, !.sheetid = sheetid, !.tr = None]]

Proceed(c, pc, sheetid, tr) ==
    /\ op' = [op EXCEPT ![c] = [@ EXCEPT !.pc = pc, !.sheetid = sheetid, !.tr = tr]]
    /\ StoreUnchanged

InitProvision ==
    /\ sheets = {}
    /\ columns = <<>>
    /\ data = <<>>
    /\ lookups = <<>>
    /\ indexes = {}
    /\ op = [c \in Clients |-> Idle]

\* The schema is not checked.
CallNewSheet_NoValidation(c, schema) ==
    /\ op[c] = Idle
    /\ op' = [op EXCEPT ![c] =
                [name |-> "new_sheet", schema |-> schema, sheetid |-> NoToken, tr |-> None,
                 pc |-> "register", result |-> Pending, at |-> "begin"]]
    /\ StoreUnchanged

\* The call, the check of the schema and pool.begin().
CallNewSheet(c, schema) ==
    /\ op[c] = Idle
    /\ op' = [op EXCEPT ![c] =
                [name |-> "new_sheet", schema |-> schema, sheetid |-> NoToken, tr |-> None,
                 pc |-> IF is_valid(schema) THEN "register" ELSE "return",
                 result |-> IF is_valid(schema) THEN Pending ELSE InvalidSchema,
                 at |-> IF is_valid(schema) THEN "begin" ELSE "is_valid"]]
    /\ StoreUnchanged

\* register_random_sheetid with the token drawn: the first write of the
\* transaction, made on the committed database once no one else is writing.
Register(c, sheetid) ==
    /\ At(c, "register")
    /\ \A d \in Clients : ~Writing(d)
    /\ LET t == register_random_sheetid(Store, sheetid)
       IN IF t.ok THEN Proceed(c, "columns", sheetid, t.db)
          ELSE Abort(c, "register", sheetid)

BuildColumns(c) ==
    /\ At(c, "columns")
    /\ LET t == build_columns_table(op[c].tr, op[c].sheetid, op[c].schema)
       IN IF t.ok THEN Proceed(c, "sheet", op[c].sheetid, t.db)
          ELSE Abort(c, "columns", op[c].sheetid)

BuildSheet(c) ==
    /\ At(c, "sheet")
    /\ LET t == build_sheet_table(op[c].tr, op[c].sheetid, op[c].schema)
       IN IF t.ok THEN Proceed(c, "lookup", op[c].sheetid, t.db)
          ELSE Abort(c, "sheet", op[c].sheetid)

BuildLookup(c) ==
    /\ At(c, "lookup")
    /\ LET t == build_lookup_table(op[c].tr, op[c].sheetid)
       IN IF t.ok THEN Proceed(c, "commit", op[c].sheetid, t.db)
          ELSE Abort(c, "lookup", op[c].sheetid)

\* tr.commit() and Ok(sheetid)
CommitSheet(c) ==
    /\ At(c, "commit")
    /\ Commit(op[c].tr)
    /\ op' = [op EXCEPT ![c] = [@ EXCEPT !.pc = "return", !.result = Ok,
                                        !.at = "commit", !.tr = None]]

\* The response is delivered.
Return(c) ==
    /\ At(c, "return")
    /\ op' = [op EXCEPT ![c] = Idle]
    /\ StoreUnchanged

NextProvision ==
    \/ \E c \in Clients, schema \in Schemas : CallNewSheet(c, schema)
    \/ \E c \in Clients, sheetid \in SheetIds : Register(c, sheetid)
    \/ \E c \in Clients : BuildColumns(c)
    \/ \E c \in Clients : BuildSheet(c)
    \/ \E c \in Clients : BuildLookup(c)
    \/ \E c \in Clients : CommitSheet(c)
    \/ \E c \in Clients : Return(c)

SpecProvision == InitProvision /\ [][NextProvision]_vars

\* A step that ends the call of a client: its outcome is set.
Ends(c) == op[c] # Idle /\ op[c].result = Pending /\ op'[c] # Idle /\ op'[c].result # Pending

\* The registry and the three families of tables name the same sheets.
WholeSheets ==
    /\ DOMAIN columns = sheets
    /\ DOMAIN data = sheets
    /\ DOMAIN lookups = sheets

\* ------------------------------------------------------------------------
\* C16  In every committed state a sheet id is in the registry if and only
\* if its column catalog, its value table and its lookup table exist; only
\* the commit of a new_sheet changes the committed state, and a new_sheet
\* that fails after it reserved its id leaves no trace of that id.
\* ------------------------------------------------------------------------
C16_AtomicProvisioning ==
    /\ []WholeSheets
    /\ [][ /\ (~StoreUnchanged) => \E c \in Clients : At(c, "commit") /\ op'[c].result = Ok
           /\ \A c \in Clients : (Ends(c) /\ op'[c].result # Ok) =>
                    /\ StoreUnchanged
                    /\ (op'[c].at \in {"columns", "sheet", "lookup"}) =>
                            /\ op'[c].sheetid \notin sheets'
                            /\ op'[c].sheetid \notin
                                    DOMAIN columns' \cup DOMAIN data' \cup DOMAIN lookups' ]_vars

\* A new_sheet has failed at its last statement, with the id reserved and the
\* catalog and the value table created in its transaction.
C16_Witness ==
    \E c \in Clients :
        /\ At(c, "return")
        /\ op[c].result = StorageFailure
        /\ op[c].at = "lookup"
        /\ op[c].sheetid \notin sheets

\* ------------------------------------------------------------------------
\* C17  No id is handed out twice, by calls one after the other or by calls
\* that overlap: a transaction reserves a token only if the registry does
\* not have it, a new_sheet that returns Ok returns an id the registry did
\* not have and adds it, the registry never loses an id, and two calls that
\* have both returned Ok hold different ids.
\* ------------------------------------------------------------------------
C17_IdsHandedOutOnce ==
    /\ [](\A c, d \in Clients :
            (c # d /\ At(c, "return") /\ At(d, "return")
                /\ op[c].result = Ok /\ op[d].result = Ok) => op[c].sheetid # op[d].sheetid)
    /\ [][ /\ sheets \subseteq sheets'
           /\ \A c \in Clients :
                /\ (At(c, "register") /\ op'[c] # Idle /\ op'[c].pc = "columns")
                        => op'[c].sheetid \notin sheets
                /\ (Ends(c) /\ op'[c].result = Ok)
                        => /\ op'[c].sheetid \notin sheets
                           /\ sheets' = sheets \cup {op'[c].sheetid} ]_vars

\* Two calls in progress at once drew the same token: one has returned it,
\* the other was refused at the reservation.
C17_Witness ==
    \E c, d \in Clients :
        /\ At(c, "return") /\ op[c].result = Ok
        /\ At(d, "return") /\ op[d].result = StorageFailure /\ op[d].at = "register"
        /\ op[d].sheetid = op[c].sheetid

\* ------------------------------------------------------------------------
\* C18  A new_sheet whose candidate token is already in the registry does
\* not fail at the reservation: the call goes on (with another candidate).
\* ------------------------------------------------------------------------
C18_CollisionRetried ==
    [][ \A c \in Clients :
            (At(c, "register") /\ op'[c] # op[c] /\ op'[c].sheetid \in sheets)
                => (op'[c].pc # "return" /\ op'[c].result # StorageFailure) ]_vars

\* ------------------------------------------------------------------------
\* C19  A new_sheet with a valid schema of one or more columns, whose token
\* is not in the registry, returns Ok whatever the store holds, and its
\* catalog, value table and lookup table are then in the store.
\* ------------------------------------------------------------------------
C19_ValidSchemaSucceeds ==
    [][ \A c \in Clients :
            (/\ Ends(c)
             /\ is_valid(op'[c].schema)
             /\ Len(op'[c].schema) > 0
             /\ op'[c].sheetid \notin sheets)
            => /\ op'[c].result = Ok
               /\ op'[c].sheetid \in DOMAIN columns' \cap DOMAIN data' \cap DOMAIN lookups' ]_vars

\* ------------------------------------------------------------------------
\* C20  A new_sheet with a schema that is_valid rejects returns InvalidSchema
\* at once: no transaction is begun, no token is drawn, the committed state
\* is unchanged, and the call never reaches a statement of the transaction.
\* ------------------------------------------------------------------------
C20_InvalidSchemaRejected ==
    /\ [](\A c \in Clients :
            (op[c] # Idle /\ ~is_valid(op[c].schema)) =>
                /\ op[c].pc = "return"
                /\ op[c].result = InvalidSchema
                /\ op[c].tr = None
                /\ op[c].sheetid = NoToken)
    /\ [][ \A c \in Clients :
            (op[c] = Idle /\ op'[c] # Idle /\ ~is_valid(op'[c].schema)) => StoreUnchanged ]_vars

\* A schema with a repeated name was refused while the other client was in
\* the middle of its transaction.
C20_Witness ==
    \E c, d \in Clients :
        /\ At(c, "return")
        /\ op[c].result = InvalidSchema
        /\ Len(op[c].schema) = 2
        /\ Writing(d)

\* ========================================================================
\* The schema validator on its own: Schema::is_valid applied to every column
\* list of at most MaxColumns columns over a few names and kinds.
\* ========================================================================
MaxColumns == 3

\* The names of the drawn columns: the empty name, two plain names and a name
\* holding a double quote.
DrawnNames == { <<>>, NameA, NameB, <<"A", Quote>> }

DrawnKinds == {"Boolean", "Int"}

DrawnColumns == { SchemaColumn(n, k) : n \in DrawnNames, k \in DrawnKinds }

DrawnSchemas == UNION { [1 .. n -> DrawnColumns] : n \in 0 .. MaxColumns }

\* A column list is at hand and the validator has not run yet; the store is
\* empty and stays so.
InitSchema ==
    /\ sheets = {} /\ indexes = {}
    /\ columns = <<>> /\ data = <<>> /\ lookups = <<>>
    /\ \E schema \in DrawnSchemas :
           op = [name |-> "is_valid", schema |-> schema, done |-> FALSE, valid |-> FALSE]

\* The call of Schema::is_valid on the column list at hand.
CallIsValid ==
    /\ ~op.done
    /\ op' = [op EXCEPT !.done = TRUE, !.valid = is_valid(op.schema)]
    /\ UNCHANGED <<sheets, columns, data, lookups, indexes>>

NextSchema == CallIsValid

SpecSchema == InitSchema /\ [][NextSchema]_vars

\* A name holds a double quote.
HasQuote(name) == \E k \in 1 .. Len(name) : name[k] = Quote

\* The names of a column list are pairwise distinct.
PairwiseDistinct(schema) ==
    \A i, j \in 1 .. Len(schema) : i # j => schema[i].name # schema[j].name

\* ------------------------------------------------------------------------
\* C21  is_valid answers true exactly when the names of the column list are
\* pairwise distinct and none of them holds a double quote; the empty list
\* and a list whose only column has the empty name are answered true.
\* ------------------------------------------------------------------------
C21_ValidatorExact ==
    op.done =>
        /\ op.valid <=> (/\ PairwiseDistinct(op.schema)
                         /\ \A i \in 1 .. Len(op.schema) : ~HasQuote(op.schema[i].name))
        /\ op.schema = <<>> => op.valid
        /\ (Len(op.schema) = 1 /\ op.schema[1].name = <<>>) => op.valid

\* A list of three columns with the empty name in the middle was accepted.
C21_Witness ==
    /\ op.done
    /\ op.valid
    /\ Len(op.schema) = 3
    /\ op.schema[2].name = <<>>

\* ========================================================================
\* The classifier on its own: CellValue::is_lookup applied to the texts
\* lookup("C", r) a client writes for the rows r of -MaxRowText .. MaxRowText.
\* ========================================================================
MaxRowText == 8

DrawnRows == (0 - MaxRowText) .. MaxRowText

\* The whitespace a client puts around the comma and inside the parentheses.
DrawnGaps == { <<>>, <<" ">> }

\* The decimal text of an i64, as Display for i64 and JSON write it.
FormatRow(r) == IF r < 0 THEN <<"-">> \o ToDigits(0 - r) ELSE ToDigits(r)

\* The text lookup("name", r) with the gap `gap` at every place the pattern
\* tolerates whitespace.
LookupForm(name, r, gap) ==
    LookupPrefix \o gap \o <<Quote>> \o name \o <<Quote>> \o gap \o <<",">> \o gap
                 \o FormatRow(r) \o gap \o <<")">>

\* A text is at hand and the classifier has not run yet; the store is empty
\* and stays so.
InitClassify ==
    /\ sheets = {} /\ indexes = {}
    /\ columns = <<>> /\ data = <<>> /\ lookups = <<>>
    /\ \E n \in ColumnNames, r \in DrawnRows, gap \in DrawnGaps :
           op = [name |-> "is_lookup", col |-> n, row |-> r,
                 value |-> String(LookupForm(n, r, gap)),
                 done |-> FALSE, answer |-> None]

\* The call of CellValue::is_lookup on the text at hand.
CallIsLookup ==
    /\ ~op.done
    /\ op' = [op EXCEPT !.done = TRUE, !.answer = is_lookup(op.value)]
    /\ UNCHANGED <<sheets, columns, data, lookups, indexes>>

NextClassify == CallIsLookup

SpecClassify == InitClassify /\ [][NextClassify]_vars

\* ------------------------------------------------------------------------
\* C29  For every row r, negative rows included, is_lookup answers the text
\* lookup("C", r) with the reference to the cell (C, r).
\* ------------------------------------------------------------------------
C29_SignedRowIsLookup ==
    op.done => op.answer = [target_col |-> op.col, target_row |-> op.row]

\* The same for the rows from 0 on: these texts are answered with the
\* reference to (C, r), whatever whitespace the client puts in.
C29_NaturalRowIsLookup ==
    (op.done /\ op.row >= 0) => op.answer = [target_col |-> op.col, target_row |-> op.row]

\* ------------------------------------------------------------------------
\* C25  In every reachable state the two columns of every stored lookup
\* edge, that of the source cell and that of the target cell, are declared
\* with the same kind in the catalog.
\* ------------------------------------------------------------------------
C25_EdgesWithinOneKind ==
    \A s \in sheets : \A e \in lookups[s] :
        columns[s][e.target_col_id + 1].type = columns[s][e.col_id + 1].type

\* An edge from a cell of one column to a cell of another column, in a
\* sheet whose two columns are of one kind.
C25_Witness ==
    \E s \in sheets : \E e \in lookups[s] : e.col_id # e.target_col_id

\* ------------------------------------------------------------------------
\* C26  In every reachable state no cell has two lookup edges, and an
\* insert_cell that writes a lookup to a cell leaves that cell with exactly
\* one edge, the one to the new target, whatever edge the cell had before.
\* ------------------------------------------------------------------------
C26_OneEdgePerCell ==
    /\ [](\A s \in sheets : \A e1, e2 \in lookups[s] :
            (e1.col_id = e2.col_id /\ e1.row = e2.row) => e1 = e2)
    /\ [][ (AnswersInsertCell /\ op'.result = Ok /\ is_lookup(op'.cell.value) # None) =>
             LET s == op'.sheetid
                 col == get_column_by_name(Store, s, op'.cell.column)
                 lookup == is_lookup(op'.cell.value)
                 target == get_column_by_name(Store, s, lookup.target_col)
             IN {e \in lookups'[s] : e.col_id = col.id /\ e.row = op'.cell.row}
                  = {[col_id |-> col.id, row |-> op'.cell.row,
                      target_col_id |-> target.id, target_row |-> lookup.target_row]} ]_vars

\* A lookup was written to a cell that held a lookup, in a sheet with an
\* edge at another cell.
C26_Witness ==
    /\ CalledInsertCell
    /\ op.result = Ok
    /\ is_lookup(op.cell.value) # None
    /\ op.held = "edge"
    /\ Cardinality(lookups[op.sheetid]) >= 2

\* ------------------------------------------------------------------------
\* C27  No step on a store that has a sheet (an insert_cell, a get_sheet, a
\* further new_sheet, whatever their outcome) removes the sheet from the
\* registry or changes its catalog: the names, the order and the kinds of
\* its columns stay as new_sheet wrote them.
\* ------------------------------------------------------------------------
C27_CatalogFixed ==
    [][ \A s \in sheets : s \in sheets' /\ columns'[s] = columns[s] ]_vars

\* A further new_sheet was answered on a store whose sheet has cells.
C27_Witness ==
    /\ op.name = "new_sheet"
    /\ op.result # Ok
    /\ \E s \in sheets : CellCount(Store, s) >= 2

\* No cell of a lookup table has two edges.
OneEdgePerCell(tbl) ==
    \A e1, e2 \in tbl : (e1.col_id = e2.col_id /\ e1.row = e2.row) => e1 = e2

OutputShape(sheetid, out, suppress) ==
    /\ DOMAIN out = {columns[sheetid][i].name : i \in 1 .. Len(columns[sheetid])}
    /\ \A c \in 0 .. Len(columns[sheetid]) - 1 :
         LET list == out[ColumnName(sheetid, c)]
             broken(r) == Literal(sheetid, Terminal(sheetid, <<c, r>>)) = SqlNull
         IN /\ \A x, y \in list : x.row = y.row => x = y
            /\ {x.row : x \in list}
                 = {r \in Rows : Literal(sheetid, <<c, r>>) # SqlNull}
                   \cup {r \in Rows : /\ HasEdge(lookups[sheetid], <<c, r>>)
                                      /\ ~(suppress /\ broken(r))}
            /\ \A x \in list :
                 x.value = NullValue =>
                    /\ ~suppress
                    /\ HasEdge(lookups[sheetid], <<c, x.row>>)
                    /\ broken(x.row)

\* ------------------------------------------------------------------------
\* C28  Every output of get_sheet, with either flag, has one list for every
\* column of the catalog (an empty one for a column without cells), no row
\* twice in a list, in each list exactly the rows of the column's literals
\* and of its lookup cells that resolve, and a null only at a lookup cell of
\* a broken chain read without suppression.
\* ------------------------------------------------------------------------
C28_OutputShape ==
    (CalledGetSheet /\ op.result = Ok) =>
        OutputShape(op.sheetid, op.output, op.no_lookup_nulls)

\* The same for the outputs without suppression only.
C28_OutputShape_Unsuppressed ==
    (CalledGetSheet /\ op.result = Ok /\ ~op.no_lookup_nulls) =>
        OutputShape(op.sheetid, op.output, FALSE)

\* ========================================================================
\* A sheet with a String column: the calls of Spec with the schema
\* [A: string, B: int] and texts among the values.
\* ========================================================================
TextSchema == <<SchemaColumn(NameA, "String"), SchemaColumn(NameB, "Int")>>

\* A text that is no lookup, as in tests/integration_test.rs.
PlainText == <<"h", "i">>

TextValues ==
    {Int64(10), String(PlainText), String(NotLookupText)}
    \cup {String(LookupText(n, r)) : n \in {NameA, NameB}, r \in Rows}

TextCells == [column : {NameA, NameB}, row : Rows, value : TextValues]

NextText ==
    \/ \E sheetid \in DrawnIds : NewSheet(TextSchema, sheetid)
    \/ \E sheetid \in DrawnIds, cell \in TextCells : InsertCell(sheetid, cell)
    \/ \E sheetid \in DrawnIds, flag \in BOOLEAN : GetSheet(sheetid, flag)
    \/ Respond

SpecText == Init /\ [][NextText]_vars

\* ------------------------------------------------------------------------
\* C30  An insert_cell of a text that matches the lookup pattern never
\* stores the text: when it returns Ok, in a String column as in any other,
\* the cell has the edge to the named cell and no literal, and when it fails
\* the store is unchanged.  An insert_cell of a text that does not match
\* the pattern stores the text as the literal of a cell of a String column,
\* without edge, and fails with TypeMismatch, the store unchanged, in a
\* column of another kind.
\* ------------------------------------------------------------------------
C30_PatternDecides ==
    [][ (/\ AnswersInsertCell
         /\ op'.sheetid \in sheets
         /\ InCatalog(op'.sheetid, op'.cell.column)
         /\ op'.cell.value.kind = "String") =>
            LET s == op'.sheetid
                key == KeyOf(s, op'.cell)
                lookup == is_lookup(op'.cell.value)
            IN IF lookup # None
               THEN /\ op'.result = Ok =>
                         /\ InCatalog(s, lookup.target_col)
                         /\ {e \in lookups'[s] : <<e.col_id, e.row>> = key}
                              = {[col_id |-> key[1], row |-> key[2],
                                  target_col_id |-> KeyOf(s, [column |-> lookup.target_col,
                                                              row |-> lookup.target_row])[1],
                                  target_row |-> lookup.target_row]}
                         /\ LiteralIn(data'[s], key) = SqlNull
                    /\ op'.result # Ok => StoreUnchanged
               ELSE IF columns[s][key[1] + 1].type = "TEXT"
                    THEN /\ op'.result = Ok
                         /\ LiteralIn(data'[s], key) = SqlText(op'.cell.value.s)
                         /\ ~HasEdge(lookups'[s], key)
                    ELSE /\ op'.result = TypeMismatch
                         /\ StoreUnchanged ]_vars

\* A lookup text was written to a cell of the String column that held a
\* text: the cell has the edge and no literal.
C30_Witness ==
    /\ CalledInsertCell
    /\ op.result = Ok
    /\ op.cell.column = NameA
    /\ is_lookup(op.cell.value) # None
    /\ op.held = "literal"
    /\ HasEdge(lookups[op.sheetid], KeyOf(op.sheetid, op.cell))
    /\ Literal(op.sheetid, KeyOf(op.sheetid, op.cell)) = SqlNull

\* ========================================================================
\* insert_cell and get_sheet statement by statement: two clients, each with
\* one call on the sheet [B: int, B2: int], every statement of a call a step
\* of its own.  `op` is the call of every client, as under SpecProvision.
\*
\* Each call runs in a transaction of its own (pool.begin()).  SQLite gives
\* a transaction the database as it was committed at its first read, for
\* all its reads; it has one writer at a time; and it refuses the first
\* write of a transaction whose reads are older than the last commit
\* (SQLITE_BUSY), which `?` passes up: the transaction is dropped.
\* ========================================================================
PriorCalls == 1

ConcSchema == <<SchemaColumn(NameB, "Int"), SchemaColumn(NameB2, "Int")>>

\* The cells the two clients address: two of one column, one of the other.
ConcKeys == { <<NameB, 0>>, <<NameB, 1>>, <<NameB2, 0>> }

ConcValues == {Int64(10)} \cup {String(LookupText(k[1], k[2])) : k \in ConcKeys}

ConcCells == {[column |-> k[1], row |-> k[2], value |-> v] : k \in ConcKeys, v \in ConcValues}

EmptyStore == [sheets |-> {}, columns |-> <<>>, data |-> <<>>, lookups |-> <<>>, indexes |-> {}]

\* The stores that calls made one after the other leave: the new sheet, and
\* what at most n insert_cell calls make of it.
RECURSIVE SerialStores(_)
SerialStores(n) ==
    IF n = 0 THEN {new_sheet(EmptyStore, ConcSchema, "s1").db}
    ELSE LET before == SerialStores(n - 1)
         IN before \cup {insert_cell(db, "s1", cell).db : db \in before, cell \in ConcCells}

InitConcurrent ==
    /\ \E db \in SerialStores(PriorCalls) :
          /\ sheets = db.sheets /\ columns = db.columns /\ data = db.data
          /\ lookups = db.lookups /\ indexes = db.indexes
    /\ op = [c \in Clients |-> Idle]

\* Every read of a transaction is not affected by the commits of the others.
ReadView_Latest(c) == Store

\* The database as the statements of the transaction of a client read it:
\* what was committed when the transaction made its first read.
ReadView(c) == op[c].snap

\* A write is accepted whatever was committed since the reads.
Stale_Never(c) == FALSE

\* Another transaction has committed since the first read of this one.
Stale(c) == Store # op[c].snap

\* The call returns: with an error the transaction is dropped.
Answer(c, result) ==
    /\ op' = [op EXCEPT ![c] = [@ EXCEPT !.pc = "return", !.result = result]]
    /\ StoreUnchanged

Goto(c, pc) ==
    /\ op' = [op EXCEPT ![c] = [@ EXCEPT !.pc = pc]]
    /\ StoreUnchanged

\* pool.begin() of Db::insert_cell
CallInsertCell(c, sheetid, cell) ==
    /\ op[c] = Idle
    /\ op' = [op EXCEPT ![c] =
                [name |-> "insert_cell", sheetid |-> sheetid, cell |-> cell,
                 pc |-> "sheet_exists", snap |-> None, col |-> None, target |-> None,
                 tr |-> None, result |-> Pending]]
    /\ StoreUnchanged

\* pool.begin() of Db::get_sheet
CallGetSheet(c, sheetid, no_lookup_nulls) ==
    /\ op[c] = Idle
    /\ op' = [op EXCEPT ![c] =
                [name |-> "get_sheet", sheetid |-> sheetid,
                 no_lookup_nulls |-> no_lookup_nulls,
                 pc |-> "sheet_exists", snap |-> None, column_table |-> <<>>,
                 regular_content |-> <<>>, unresolved_lookups |-> <<>>,
                 result |-> Pending, output |-> <<>>]]
    /\ StoreUnchanged

\* sheet_exists(&mut tr, sheetid), the first read of either call.
SheetCheck(c) ==
    /\ At(c, "sheet_exists")
    /\ StoreUnchanged
    /\ LET call == [op[c] EXCEPT !.snap = Store]
       IN IF ~sheet_exists(Store, call.sheetid)
          THEN op' = [op EXCEPT ![c] = [call EXCEPT !.pc = "return", !.result = SheetNotFound]]
          ELSE op' = [op EXCEPT ![c] =
                        [call EXCEPT !.pc = IF call.name = "insert_cell"
                                            THEN "column" ELSE "column_table"]]

\* Db::insert_cell from get_column_by_name to the comparison of the kinds.
CatalogLookup(c) ==
    /\ At(c, "column")
    /\ StoreUnchanged
    /\ LET call == op[c]
           col == get_column_by_name(ReadView(c), call.sheetid, call.cell.column)
           lookup == is_lookup(call.cell.value)
       IN IF col = None
          THEN op' = [op EXCEPT ![c] = [call EXCEPT !.pc = "return", !.result = UnknownColumn]]
          ELSE IF lookup # None
          THEN LET target == get_column_by_name(ReadView(c), call.sheetid, lookup.target_col)
               IN IF target = None
                  THEN op' = [op EXCEPT ![c] =
                                [call EXCEPT !.pc = "return", !.result = UnknownTargetColumn]]
                  ELSE IF col.kind # target.kind
                  THEN op' = [op EXCEPT ![c] =
                                [call EXCEPT !.pc = "return", !.result = TargetTypeMismatch]]
                  ELSE op' = [op EXCEPT ![c] =
                                [call EXCEPT !.pc = "cycle", !.col = col, !.target = target]]
          ELSE IF col.kind # KindOfValue(call.cell.value)
          THEN op' = [op EXCEPT ![c] = [call EXCEPT !.pc = "return", !.result = TypeMismatch]]
          ELSE op' = [op EXCEPT ![c] = [call EXCEPT !.pc = "write", !.col = col]]

\* Db::detect_cycle, every SELECT of it on the lookup table as the
\* transaction reads it.
CycleWalk(c) ==
    /\ At(c, "cycle")
    /\ LET call == op[c]
           found == detect_cycle(ReadView(c).lookups[call.sheetid], call.col.id, call.cell.row,
                                 call.target.id, is_lookup(call.cell.value).target_row)
       IN IF found = CycleAbsent THEN Goto(c, "write")
          ELSE Answer(c, IF found = CycleFound THEN CycleDetected ELSE NoReturn)

\* The two write statements of a branch of Db::insert_cell.  The first one
\* takes the write lock: it is refused while another transaction holds it
\* and when the reads of this one are stale.
WriteCell(c) ==
    /\ At(c, "write")
    /\ LET call == op[c]
           s == call.sheetid
           lookup == is_lookup(call.cell.value)
       IN IF (\E d \in Clients \ {c} : Writing(d)) \/ Stale(c)
          THEN Answer(c, StorageFailure)
          ELSE /\ StoreUnchanged
               /\ op' = [op EXCEPT ![c] = [call EXCEPT
                    !.pc = "commit",
                    !.tr = IF lookup # None
                           THEN [Store EXCEPT
                                   !.data[s] = NullLiteral(@, call.col.id, call.cell.row),
                                   !.lookups[s] = UpsertLookup(@, call.col.id, call.cell.row,
                                                               call.target.id, lookup.target_row)]
                           ELSE [Store EXCEPT
                                   !.lookups[s] = DeleteLookup(@, call.col.id, call.cell.row),
                                   !.data[s] = UpsertLiteral(@, Len(Store.columns[s]),
                                                             call.col.id, call.cell.row,
                                                             Bind(call.cell.value))]]]

\* Of the writes of the transaction only those to the value table are
\* committed.
Committed_ValueTableOnly(c) == [Store EXCEPT !.data = op[c].tr.data]

\* What tr.commit() makes the database: all the writes of the transaction
\* at once.
Committed(c) == op[c].tr

\* tr.commit() and Ok(()) of Db::insert_cell
CommitCell(c) ==
    /\ At(c, "commit")
    /\ op[c].name = "insert_cell"
    /\ Commit(Committed(c))
    /\ op' = [op EXCEPT ![c] = [@ EXCEPT !.pc = "return", !.result = Ok, !.tr = None]]

\* Db::get_column_table
ReadColumnTable(c) ==
    /\ At(c, "column_table")
    /\ StoreUnchanged
    /\ op' = [op EXCEPT ![c] = [@ EXCEPT
                !.pc = "column_content",
                !.column_table = get_column_table(ReadView(c), op[c].sheetid)]]

\* One turn of the loop over the columns: Db::get_column_content of the next
\* column; after the last column the loop is left.
ReadColumnContent(c) ==
    /\ At(c, "column_content")
    /\ StoreUnchanged
    /\ LET call == op[c]
           i == Len(call.regular_content)
       IN IF i = Len(call.column_table)
          THEN op' = [op EXCEPT ![c] = [call EXCEPT !.pc = "get_lookups"]]
          ELSE op' = [op EXCEPT ![c] = [call EXCEPT
                        !.regular_content =
                            Append(@, get_column_content(ReadView(c), call.sheetid,
                                                         call.column_table[i + 1].kind, i))]]

\* Db::get_lookups
ReadLookups(c) ==
    /\ At(c, "get_lookups")
    /\ StoreUnchanged
    /\ op' = [op EXCEPT ![c] = [@ EXCEPT
                !.pc = "end_read",
                !.unresolved_lookups = get_lookups(ReadView(c), op[c].sheetid)]]

\* tr.commit() of Db::get_sheet: the reads are over.
EndRead(c) ==
    /\ At(c, "end_read")
    /\ Goto(c, "resolve")

\* The loops of Db::get_sheet over what was read, and the SheetContent.
Resolve(c) ==
    /\ At(c, "resolve")
    /\ StoreUnchanged
    /\ LET call == op[c]
           n == Len(call.column_table)
           content == [i \in 0 .. n - 1 |-> call.regular_content[i + 1]]
       IN \E resolved \in ResolveLookups(content, call.unresolved_lookups, call.no_lookup_nulls) :
             op' = [op EXCEPT ![c] = [call EXCEPT
                        !.pc = "return", !.result = Ok,
                        !.output = SheetContent(call.column_table, resolved)]]

NextConcurrent ==
    \/ \E c \in Clients, cell \in ConcCells : CallInsertCell(c, "s1", cell)
    \/ \E c \in Clients, flag \in BOOLEAN : CallGetSheet(c, "s1", flag)
    \/ \E c \in Clients : SheetCheck(c)
    \/ \E c \in Clients : CatalogLookup(c)
    \/ \E c \in Clients : CycleWalk(c)
    \/ \E c \in Clients : WriteCell(c)
    \/ \E c \in Clients : CommitCell(c)
    \/ \E c \in Clients : ReadColumnTable(c)
    \/ \E c \in Clients : ReadColumnContent(c)
    \/ \E c \in Clients : ReadLookups(c)
    \/ \E c \in Clients : EndRead(c)
    \/ \E c \in Clients : Resolve(c)

SpecConcurrent == InitConcurrent /\ [][NextConcurrent]_vars

\* The key of the cell a lookup text names, in a sheet whose catalog has the
\* column.
TargetKeyOf(sheetid, value) ==
    KeyOf(sheetid, [column |-> is_lookup(value).target_col, row |-> is_lookup(value).target_row])

\* Two calls write lookups that are the reverse of each other.
Mutual(c, d) ==
    /\ op[c] # Idle /\ op[c].name = "insert_cell" /\ is_lookup(op[c].cell.value) # None
    /\ op[d] # Idle /\ op[d].name = "insert_cell" /\ is_lookup(op[d].cell.value) # None
    /\ KeyOf(op[c].sheetid, op[c].cell) = TargetKeyOf(op[d].sheetid, op[d].cell.value)
    /\ KeyOf(op[d].sheetid, op[d].cell) = TargetKeyOf(op[c].sheetid, op[c].cell.value)
    /\ KeyOf(op[c].sheetid, op[c].cell) # KeyOf(op[d].sheetid, op[d].cell)

\* ------------------------------------------------------------------------
\* C22  Whatever way the statements of two insert_cell calls interleave, the
\* committed edges of the sheet are acyclic after every step, and two calls
\* that write lookups that are the reverse of each other, X to Y and Y to
\* X, never both return Ok.
\* ------------------------------------------------------------------------
C22_NoCycleCommitted ==
    /\ \A s \in sheets : Acyclic(lookups[s])
    /\ \A c, d \in Clients : Mutual(c, d) => ~(op[c].result = Ok /\ op[d].result = Ok)

\* Both calls had made their walk on a sheet without either edge before one
\* of them wrote: the one committed, the other was refused at its write.
C22_Witness ==
    \E c, d \in Clients :
        /\ Mutual(c, d)
        /\ op[c].result = Ok
        /\ op[d].result = StorageFailure
        /\ ~HasEdge(op[c].snap.lookups[op[c].sheetid], KeyOf(op[c].sheetid, op[c].cell))
        /\ ~HasEdge(op[c].snap.lookups[op[c].sheetid], KeyOf(op[d].sheetid, op[d].cell))
        /\ op[d].snap = op[c].snap

\* What a get_sheet call has returned.
Returned(c) == [result |-> op[c].result, output |-> op[c].output]

\* ------------------------------------------------------------------------
\* C23  What a get_sheet call returns is an outcome of get_sheet on one
\* committed state, the one at the first read of its transaction, whatever
\* the other client commits between its reads or after them: the state a
\* call reads is fixed at its first read and is the database committed then.
\* ------------------------------------------------------------------------
C23_ReadsOneState ==
    /\ [](\A c \in Clients :
            (At(c, "return") /\ op[c].name = "get_sheet") =>
                Returned(c) \in get_sheet(op[c].snap, op[c].sheetid, op[c].no_lookup_nulls))
    /\ [][ \A c \in Clients :
            /\ (At(c, "sheet_exists") /\ op'[c] # op[c]) => op'[c].snap = Store
            /\ (op[c] # Idle /\ ~At(c, "sheet_exists")) => op'[c].snap = op[c].snap ]_vars

\* The other client read the same committed state and committed a cell
\* while this get_sheet was under way: the output is that of the state
\* before the commit, and no output of the state after it.
C23_Witness ==
    \E c, d \in Clients :
        /\ At(c, "return") /\ op[c].name = "get_sheet" /\ op[c].result = Ok
        /\ At(d, "return") /\ op[d].name = "insert_cell" /\ op[d].result = Ok
        /\ op[d].snap = op[c].snap
        /\ Store # op[c].snap
        /\ Returned(c) \notin get_sheet(Store, op[c].sheetid, op[c].no_lookup_nulls)

\* ------------------------------------------------------------------------
\* C31  An insert_cell that writes to a cell a lookup to another cell of a
\* column of the same kind, the other cell holding neither a literal nor an
\* edge, returns Ok and stores the edge.  And after an insert_cell that
\* writes a literal to a cell, get_sheet (read without suppression) reports
\* every lookup cell whose chain ends at that cell with the literal.
\* ------------------------------------------------------------------------
C31_LookupToUnwritten ==
    /\ [][ (/\ AnswersInsertCell
            /\ op'.sheetid \in sheets
            /\ is_lookup(op'.cell.value) # None
            /\ InCatalog(op'.sheetid, op'.cell.column)
            /\ InCatalog(op'.sheetid, is_lookup(op'.cell.value).target_col)) =>
              LET s == op'.sheetid
                  key == KeyOf(s, op'.cell)
                  target == TargetKeyOf(s, op'.cell.value)
              IN (/\ columns[s][key[1] + 1].type = columns[s][target[1] + 1].type
                  /\ target # key
                  /\ Literal(s, target) = SqlNull
                  /\ ~HasEdge(lookups[s], target)) =>
                     /\ op'.result = Ok
                     /\ [col_id |-> key[1], row |-> key[2],
                         target_col_id |-> target[1], target_row |-> target[2]] \in lookups'[s] ]_vars
    /\ []( (CalledInsertCell /\ op.result = Ok /\ is_lookup(op.cell.value) = None) =>
              LET s == op.sheetid
                  end == KeyOf(s, op.cell)
              IN \A key \in LookupCells(s) :
                    Terminal(s, key) = end =>
                       \A r \in get_sheet(Store, s, FALSE) :
                          EntriesAt(r.output, s, key)
                              = {[row |-> key[2], value |-> op.cell.value]} )

\* A literal was written to a cell that held nothing and that a chain of two
\* lookups, written before it, ends at.
C31_Witness ==
    /\ CalledInsertCell
    /\ op.result = Ok
    /\ is_lookup(op.cell.value) = None
    /\ op.held = "nothing"
    /\ \E e1, e2 \in lookups[op.sheetid] :
          /\ <<e1.target_col_id, e1.target_row>> = <<e2.col_id, e2.row>>
          /\ <<e2.target_col_id, e2.target_row>> = KeyOf(op.sheetid, op.cell)

\* ========================================================================
\* The resolver on its own: the loops of Db::get_sheet over an edge map and
\* a content that are drawn freely, turn by turn.  The edge map is any map
\* from cells of one column to cells of it, with cycles and self-references
\* among them; the program itself stores acyclic maps only.
\* ========================================================================
MaxEdgeRow == 2

EdgeKeys == {0} \X (0 .. MaxEdgeRow)

\* Every map from some of the cells to cells.
EdgeMaps == UNION { [from -> EdgeKeys] : from \in SUBSET EdgeKeys }

\* The literals read before the loops: none, or one at every cell.
DrawnContents ==
    { [c \in {0} |-> [r \in rows |-> Int64(10 + r)]] : rows \in { {}, 0 .. MaxEdgeRow } }

\* The maps are read and the outer loop is about to test its condition.
InitResolve ==
    /\ sheets = {} /\ indexes = {}
    /\ columns = <<>> /\ data = <<>> /\ lookups = <<>>
    /\ \E edges \in EdgeMaps, content \in DrawnContents, flag \in BOOLEAN :
          op = [name |-> "resolve", no_lookup_nulls |-> flag,
                edges |-> edges, content |-> content,
                regular_content |-> content, unresolved_lookups |-> edges,
                pc |-> "while", current_key |-> <<0, 0>>, stack |-> <<>>,
                starts |-> 0, steps |-> 0, removed |-> 0]

\* while !unresolved_lookups.is_empty() finds the map empty.
LeaveWhile ==
    /\ op.pc = "while"
    /\ DOMAIN op.unresolved_lookups = {}
    /\ op' = [op EXCEPT !.pc = "done"]
    /\ StoreUnchanged

\* let mut stack = vec![]; current_key = *unresolved_lookups.keys().next()
PickStart(key) ==
    /\ op.pc = "while"
    /\ key \in DOMAIN op.unresolved_lookups
    /\ op' = [op EXCEPT !.pc = "loop", !.current_key = key, !.stack = <<>>,
                        !.starts = @ + 1]
    /\ StoreUnchanged

\* The pending edge of the current cell is left in the map.
TakeEdge_Peek(unresolved, key) == unresolved

\* unresolved_lookups.remove(&current_key): the map without the entry.
TakeEdge(unresolved, key) == [k \in DOMAIN unresolved \ {key} |-> unresolved[k]]

\* One turn of the inner loop: the if branch follows and removes the edge of
\* the current cell, the else branch gives the value found and breaks.
LoopTurn ==
    /\ op.pc = "loop"
    /\ StoreUnchanged
    /\ IF op.current_key \in DOMAIN op.unresolved_lookups
       THEN op' = [op EXCEPT
                     !.unresolved_lookups = TakeEdge(@, op.current_key),
                     !.stack = Append(@, op.current_key),
                     !.current_key = op.unresolved_lookups[op.current_key],
                     !.steps = @ + 1,
                     !.removed = @ + 1]
       ELSE op' = [op EXCEPT
                     !.regular_content = FinishWalk(@, op.current_key, op.stack,
                                                    op.no_lookup_nulls),
                     !.steps = @ + 1,
                     !.pc = "while"]

NextResolve ==
    \/ LeaveWhile
    \/ \E key \in EdgeKeys : PickStart(key)
    \/ LoopTurn

\* The loops run on: the thread of the call is not held back.
SpecResolve == InitResolve /\ [][NextResolve]_vars /\ WF_vars(NextResolve)

\* ------------------------------------------------------------------------
\* C32  On every edge map, one with a cycle too, the loops of the resolver
\* come to their end; every turn that takes an edge takes one that is
\* pending, so that each edge of the map is taken once and none is left at
\* the end; and the turns of the inner loop never number more than the
\* edges of the map plus the starts picked.  What the loops end with is a
\* content that ResolveLookups gives for the map.
\* ------------------------------------------------------------------------
C32_ResolverTerminates ==
    /\ <>(op.pc = "done")
    /\ [](/\ op.removed + Cardinality(DOMAIN op.unresolved_lookups)
                = Cardinality(DOMAIN op.edges)
          /\ op.steps <= Cardinality(DOMAIN op.edges) + op.starts
          /\ op.starts <= Cardinality(DOMAIN op.edges)
          /\ Len(op.stack) <= Cardinality(DOMAIN op.edges)
          /\ op.pc = "done" =>
                /\ DOMAIN op.unresolved_lookups = {}
                /\ op.removed = Cardinality(DOMAIN op.edges)
                /\ op.regular_content
                      \in ResolveLookups(op.content, op.edges, op.no_lookup_nulls))
    /\ [][ op'.removed # op.removed =>
             /\ op'.removed = op.removed + 1
             /\ op.current_key \in DOMAIN op.unresolved_lookups
             /\ DOMAIN op'.unresolved_lookups
                   = DOMAIN op.unresolved_lookups \ {op.current_key} ]_vars

\* The loops came to their end on a map that is one cycle over all cells.
C32_Witness ==
    /\ op.pc = "done"
    /\ DOMAIN op.edges = EdgeKeys
    /\ \A k \in EdgeKeys : ReachFrom({[col_id |-> e[1], row |-> e[2],
                                        target_col_id |-> op.edges[e][1],
                                        target_row |-> op.edges[e][2]] : e \in EdgeKeys},
                                     {k}) = EdgeKeys
    /\ op.starts = 1

\* ------------------------------------------------------------------------
\* C33  For every stored state and either flag value, get_sheet has one
\* outcome whatever pending cell the resolver picks at each start: all the
\* orders of picking give the same entries for every column, and a call
\* that was answered was answered with them.
\* ------------------------------------------------------------------------
C33_PickOrderIrrelevant ==
    \A s \in sheets, flag \in BOOLEAN :
        LET outcomes == get_sheet(Store, s, flag)
        IN /\ \A r1, r2 \in outcomes : r1 = r2
           /\ (CalledGetSheet /\ op.sheetid = s /\ op.no_lookup_nulls = flag) =>
                 \A r \in outcomes : r.result = op.result /\ r.output = op.output

\* A sheet was read whose edges form a chain of two that ends at a literal:
\* the resolver may start at the head of the chain or in the middle of it.
C33_Witness ==
    /\ CalledGetSheet
    /\ op.sheetid \in sheets
    /\ ~op.no_lookup_nulls
    /\ \E e1, e2 \in lookups[op.sheetid] :
          /\ <<e1.target_col_id, e1.target_row>> = <<e2.col_id, e2.row>>
          /\ Literal(op.sheetid, <<e2.target_col_id, e2.target_row>>) # SqlNull
          /\ \E v \in EntriesAt(op.output, op.sheetid, <<e1.col_id, e1.row>>) :
                v.value # NullValue

\* ========================================================================
\* Db::detect_cycle on its own, statement by statement, on the lookup
\* table of a database file as Db::new finds it: any table with at most one
\* edge for a cell (the primary key), acyclic or not.
\* ========================================================================
WalkSchema == <<SchemaColumn(NameB, "Int")>>

\* The rows of the lookup table for an edge map.
EdgeTable(edges) ==
    {[col_id |-> k[1], row |-> k[2],
      target_col_id |-> edges[k][1], target_row |-> edges[k][2]] : k \in DOMAIN edges}

\* The file holds one sheet with the drawn lookup table; detect_cycle is
\* called for a source cell and a target cell (asked: the target of the
\* call, which the loop moves on from).
InitWalk ==
    /\ \E edges \in EdgeMaps :
          LET db == [new_sheet(EmptyStore, WalkSchema, "s1").db
                        EXCEPT !.lookups["s1"] = EdgeTable(edges)]
          IN /\ sheets = db.sheets /\ columns = db.columns /\ data = db.data
             /\ lookups = db.lookups /\ indexes = db.indexes
    /\ \E source \in EdgeKeys, target \in EdgeKeys :
          op = [name |-> "detect_cycle", sheetid |-> "s1",
                col_id |-> source[1], row |-> source[2],
                target_col_id |-> target[1], target_row |-> target[2],
                asked |-> target, pc |-> "check", fetched |-> None,
                found |-> Pending]

\* if col_id == target_col_id && row == target_row { return Ok(true) }
SelfCheck ==
    /\ op.pc = "check"
    /\ StoreUnchanged
    /\ IF op.col_id = op.target_col_id /\ op.row = op.target_row
       THEN op' = [op EXCEPT !.pc = "return", !.found = CycleFound]
       ELSE op' = [op EXCEPT !.pc = "select"]

\* The SELECT of a turn of the loop, for the current target.
WalkSelect ==
    /\ op.pc = "select"
    /\ StoreUnchanged
    /\ op' = [op EXCEPT
                !.fetched = FetchLookup(lookups[op.sheetid], op.target_col_id, op.target_row),
                !.pc = "compare"]

\* The rest of the turn: return Ok(false) when no row was found, return
\* Ok(true) when the row is the source cell, else the move to the cell found
\* and the next turn.
WalkCompare ==
    /\ op.pc = "compare"
    /\ StoreUnchanged
    /\ LET next == op.fetched
       IN IF next = None
          THEN op' = [op EXCEPT !.pc = "return", !.found = CycleAbsent]
          ELSE IF next.col_id = op.col_id /\ next.row = op.row
          THEN op' = [op EXCEPT !.pc = "return", !.found = CycleFound]
          ELSE op' = [op EXCEPT !.target_col_id = next.col_id, !.target_row = next.row,
                                !.fetched = None, !.pc = "select"]

NextWalk ==
    \/ SelfCheck
    \/ WalkSelect
    \/ WalkCompare

\* The call runs on: nothing holds its thread back.
SpecWalk == InitWalk /\ [][NextWalk]_vars /\ WF_vars(NextWalk)

\* ------------------------------------------------------------------------
\* C34  The walk of detect_cycle returns on every stored lookup table, also
\* on one that holds a cycle which does not pass through the source cell.
\* ------------------------------------------------------------------------
C34_WalkReturns == <>(op.pc = "return")

\* On a table without a cycle the walk returns, and what it returns is what
\* detect_cycle gives for the table; detect_cycle gives NoReturn exactly for
\* the walks that never return.
C34_WalkReturns_Acyclic ==
    /\ Acyclic(lookups["s1"]) => <>(op.pc = "return")
    /\ [](op.pc = "return" =>
            op.found = detect_cycle(lookups["s1"], op.col_id, op.row,
                                    op.asked[1], op.asked[2]))

\* ------------------------------------------------------------------------
\* C35  An insert_cell with a lookup returns CycleDetected only if the
\* target cell reaches the source cell over the stored edges (in zero or
\* more steps).  When the two columns are of one kind and the target does
\* not reach the source, the call returns Ok and the edge of the source
\* cell is the new one and no other, whatever edge the cell had before.
\* ------------------------------------------------------------------------
C35_NoFalseCycle ==
    [][ (/\ AnswersInsertCell
         /\ op'.sheetid \in sheets
         /\ is_lookup(op'.cell.value) # None) =>
           LET s == op'.sheetid
               known == /\ InCatalog(s, op'.cell.column)
                        /\ InCatalog(s, is_lookup(op'.cell.value).target_col)
           IN /\ op'.result = CycleDetected =>
                    /\ known
                    /\ KeyOf(s, op'.cell) \in
                          ReachFrom(lookups[s], {TargetKeyOf(s, op'.cell.value)})
              /\ known =>
                    LET key == KeyOf(s, op'.cell)
                        target == TargetKeyOf(s, op'.cell.value)
                    IN (/\ columns[s][key[1] + 1].type = columns[s][target[1] + 1].type
                        /\ key \notin ReachFrom(lookups[s], {target})) =>
                           /\ op'.result = Ok
                           /\ lookups'[s] =
                                 {e \in lookups[s] : <<e.col_id, e.row>> # key}
                                 \cup {[col_id |-> key[1], row |-> key[2],
                                        target_col_id |-> target[1],
                                        target_row |-> target[2]]} ]_vars

\* A cell that held a lookup was pointed to another cell, one that an edge
\* of a third cell points to as well; the new edge is the cell's only one.
C35_Witness ==
    /\ CalledInsertCell
    /\ op.result = Ok
    /\ op.held = "edge"
    /\ is_lookup(op.cell.value) # None
    /\ LET s == op.sheetid
           key == KeyOf(s, op.cell)
           target == TargetKeyOf(s, op.cell.value)
       IN /\ \E e \in lookups[s] :
                /\ <<e.col_id, e.row>> # key
                /\ <<e.target_col_id, e.target_row>> = target
          /\ {<<e.target_col_id, e.target_row>> :
                 e \in {e \in lookups[s] : <<e.col_id, e.row>> = key}} = {target}

\* ------------------------------------------------------------------------
\* C36  An insert_cell that returns Ok leaves every cell but the written
\* one as it was stored: the literal of every other cell is the same, the
\* cells of the other columns in the written row among them, and the edges
\* of the other cells are the same, those that point to the written cell
\* among them.  The registry and the catalogs are the same as well.
\* ------------------------------------------------------------------------
C36_OnlyTheCellChanges ==
    [][ (AnswersInsertCell /\ op'.result = Ok) =>
           LET s == op'.sheetid
               key == KeyOf(s, op'.cell)
           IN /\ sheets' = sheets /\ columns' = columns
              /\ DOMAIN data' = DOMAIN data /\ DOMAIN lookups' = DOMAIN lookups
              /\ \A k \in AllKeys(s) \ {key} : LiteralIn(data'[s], k) = LiteralIn(data[s], k)
              /\ {e \in lookups'[s] : <<e.col_id, e.row>> # key}
                    = {e \in lookups[s] : <<e.col_id, e.row>> # key}
              /\ \A t \in DOMAIN data \ {s} : data'[t] = data[t] /\ lookups'[t] = lookups[t] ]_vars

\* A cell was written that a lookup of another cell points to, in a row
\* where the other column holds a literal; the cell held something before.
C36_Witness ==
    /\ CalledInsertCell
    /\ op.result = Ok
    /\ op.held # "nothing"
    /\ LET s == op.sheetid
           key == KeyOf(s, op.cell)
       IN /\ \E e \in lookups[s] :
                /\ <<e.col_id, e.row>> # key
                /\ <<e.target_col_id, e.target_row>> = key
          /\ \E k \in AllKeys(s) : k[1] # key[1] /\ k[2] = key[2] /\ Literal(s, k) # SqlNull

\* ------------------------------------------------------------------------
\* C37  A get_sheet, answered with the content or with an error and with
\* either flag value, leaves registry, catalogs, literals, edges and index
\* names as they were; a lookup cell whose value the answer reports still
\* holds no literal afterwards.
\* ------------------------------------------------------------------------
C37_ReadOnly ==
    /\ [][ (op = Idle /\ op'.name = "get_sheet") =>
              /\ StoreUnchanged
              /\ get_sheet_tr(Store, op'.sheetid) = Store ]_vars
    /\ []( (CalledGetSheet /\ op.result = Ok) =>
              \A key \in LookupCells(op.sheetid) : Literal(op.sheetid, key) = SqlNull )

\* A read without suppression reported a lookup cell with the literal that
\* its chain ends at; the cell holds no literal of its own.
C37_Witness ==
    /\ CalledGetSheet
    /\ op.result = Ok
    /\ ~op.no_lookup_nulls
    /\ \E key \in LookupCells(op.sheetid) :
          /\ Literal(op.sheetid, key) = SqlNull
          /\ \E y \in EntriesAt(op.output, op.sheetid, key) : y.value # NullValue

\* ========================================================================
\* Two sheets in one database.  Db::new_sheet gives the index of every
\* lookup table the one name index_lookups, so that the calls of the program
\* make one sheet in a database and no second; the database file here is one
\* that Db::new finds with two sheets of the catalog [B: int, B2: int], the
\* unique index of the second lookup table under a name of its own.
\* ========================================================================
SecondIndexName == "index_lookups_2"

\* The tables of a sheet, built as Db::new_sheet builds them.
WithSheet(db, sheetid, index) ==
    LET t1 == register_random_sheetid(db, sheetid)
        t2 == build_columns_table(t1.db, sheetid, ConcSchema)
        t3 == build_sheet_table(t2.db, sheetid, ConcSchema)
    IN [t3.db EXCEPT
          !.lookups = [s \in DOMAIN @ \cup {sheetid} |-> IF s = sheetid THEN {} ELSE @[s]],
          !.indexes = @ \cup {index}]

InitSheets ==
    /\ LET db == WithSheet(WithSheet(EmptyStore, "s1", LookupIndexName("s1")),
                           "s2", SecondIndexName)
       IN /\ sheets = db.sheets /\ columns = db.columns /\ data = db.data
          /\ lookups = db.lookups /\ indexes = db.indexes
    /\ op = Idle

\* The cells the calls address: on the first sheet all of ConcCells, on the
\* second sheet those that lie in the first column and point into it.
SheetCells(sheetid) ==
    IF sheetid = "s1" THEN ConcCells
    ELSE {cell \in ConcCells :
            /\ cell.column = NameB
            /\ is_lookup(cell.value) # None => is_lookup(cell.value).target_col = NameB}

NextSheets ==
    \/ \E sheetid \in SheetIds : \E cell \in SheetCells(sheetid) : InsertCell(sheetid, cell)
    \/ \E sheetid \in SheetIds, flag \in BOOLEAN : GetSheet(sheetid, flag)
    \/ Respond

SpecSheets == InitSheets /\ [][NextSheets]_vars

\* The database with the one sheet only.
Alone(db, sheetid) ==
    [db EXCEPT !.sheets = @ \cap {sheetid},
               !.columns = [s \in DOMAIN @ \cap {sheetid} |-> @[s]],
               !.data = [s \in DOMAIN @ \cap {sheetid} |-> @[s]],
               !.lookups = [s \in DOMAIN @ \cap {sheetid} |-> @[s]]]

\* ------------------------------------------------------------------------
\* C38  An insert_cell on a sheet, whatever its outcome, leaves the catalog,
\* the literals and the edges of every other sheet as they were, and with
\* them what get_sheet gives for the other sheet; and its outcome is the one
\* it has on a database that holds this sheet alone: the edges of the other
\* sheets play no part in the detection of a cycle.
\* ------------------------------------------------------------------------
C38_SheetsIsolated ==
    [][ AnswersInsertCell =>
           LET s == op'.sheetid
               alone == insert_cell(Alone(Store, s), s, op'.cell)
           IN /\ sheets' = sheets
              /\ \A t \in sheets \ {s} :
                    /\ columns'[t] = columns[t]
                    /\ data'[t] = data[t]
                    /\ lookups'[t] = lookups[t]
                    /\ \A flag \in BOOLEAN :
                          get_sheet(Store', t, flag) = get_sheet(Store, t, flag)
              /\ op'.result = alone.result
              /\ data'[s] = alone.db.data[s]
              /\ lookups'[s] = alone.db.lookups[s] ]_vars

\* A lookup was written on one sheet while the other sheet holds, between
\* the same two cells, the edge in the opposite direction, and a literal.
C38_Witness ==
    /\ CalledInsertCell
    /\ op.result = Ok
    /\ is_lookup(op.cell.value) # None
    /\ LET s == op.sheetid
           key == KeyOf(s, op.cell)
           target == TargetKeyOf(s, op.cell.value)
       IN \E t \in sheets \ {s} :
             /\ [col_id |-> target[1], row |-> target[2],
                 target_col_id |-> key[1], target_row |-> key[2]] \in lookups[t]
             /\ \E k \in AllKeys(t) : Literal(t, k) # SqlNull

\* Both clients have their answer; both called insert_cell for one cell of
\* the sheet, c with a literal and d with a lookup.
SameCellPair(c, d) ==
    /\ c # d
    /\ At(c, "return") /\ op[c].name = "insert_cell" /\ is_lookup(op[c].cell.value) = None
    /\ At(d, "return") /\ op[d].name = "insert_cell" /\ is_lookup(op[d].cell.value) # None
    /\ op[c].sheetid = op[d].sheetid
    /\ op[c].cell.column = op[d].cell.column
    /\ op[c].cell.row = op[d].cell.row

\* What is stored for the cells of a sheet: the literal of every cell and
\* the edges.  (A row of the value table with NULL in every column stores
\* the same as no row.)
Representation(db, sheetid) ==
    [literals |-> [k \in AllKeys(sheetid) |-> LiteralIn(db.data[sheetid], k)],
     edges |-> db.lookups[sheetid]]

\* The database after the call of a and then the call of b, one after the
\* other, from the database `base`.
SerialOrder(base, a, b) ==
    insert_cell(insert_cell(base, op[a].sheetid, op[a].cell).db, op[b].sheetid, op[b].cell).db

\* The database before the two calls: what both read, or what the one read
\* whose commit the other one read.
BaseOf(c, d) ==
    IF op[c].snap = op[d].snap THEN {op[c].snap}
    ELSE {op[e].snap : e \in {e \in {c, d} :
             /\ op[e].result = Ok
             /\ \E f \in {c, d} \ {e} :
                   op[f].snap = insert_cell(op[e].snap, op[e].sheetid, op[e].cell).db}}

\* ------------------------------------------------------------------------
\* C39  When two insert_cell calls for one cell, one with a literal and one
\* with a lookup, have run with their statements interleaved in any way,
\* what is committed for the cells of the sheet is what one of the two
\* orders of the calls, made one after the other, leaves.  The cell never
\* holds both a literal and an edge, in no committed state, and when a call
\* that changes the cell is among the two it holds one of them at the end.
\* ------------------------------------------------------------------------
C39_SameCellSerial ==
    /\ \A s \in sheets : \A k \in AllKeys(s) :
          ~(Literal(s, k) # SqlNull /\ HasEdge(lookups[s], k))
    /\ \A c, d \in Clients :
          SameCellPair(c, d) =>
             LET s == op[c].sheetid
                 key == KeyOf(s, op[c].cell)
             IN /\ BaseOf(c, d) # {}
                /\ \A base \in BaseOf(c, d) :
                      /\ Representation(Store, s)
                            \in {Representation(SerialOrder(base, c, d), s),
                                 Representation(SerialOrder(base, d, c), s)}
                      /\ (\/ insert_cell(base, s, op[c].cell).result = Ok
                          \/ insert_cell(base, s, op[d].cell).result = Ok) =>
                            (Literal(s, key) # SqlNull) # HasEdge(lookups[s], key)

\* The two calls read the same state, in which the cell held an edge; the
\* literal was committed and the lookup, to another target, was refused at
\* its write.
C39_Witness ==
    \E c, d \in Clients :
        /\ SameCellPair(c, d)
        /\ op[c].snap = op[d].snap
        /\ op[c].result = Ok
        /\ op[d].result = StorageFailure
        /\ HasEdge(op[c].snap.lookups[op[c].sheetid], KeyOf(op[c].sheetid, op[c].cell))
        /\ Literal(op[c].sheetid, KeyOf(op[c].sheetid, op[c].cell)) # SqlNull

====
